---- MODULE Spec2Model ----
(***************************************************************************)
(* Model of the client-side render engines of mathisthomsen.de             *)
(* (js/cv.js, js/portfolio.js), their i18n helpers, and the page life      *)
(* cycle around them (bootstrap, content fetch, language toggle).          *)
(*                                                                         *)
(* JavaScript strings that are only compared or concatenated are TLA+      *)
(* strings; strings that are sliced, split or case-folded are sequences    *)
(* of one-character strings.  An optional value (null / undefined /        *)
(* absent key) is a sequence of length 0, a present value v is <<v>>.      *)
(***************************************************************************)
EXTENDS Integers, Sequences, FiniteSets, TLC

VARIABLES
    \* ---- probes of the pure helpers (one record per call) ----
    rIn, rOut,          \* resolveInitialLang: inputs / result
    tIn, tOut,          \* t(field, lang): inputs / result
    dIn, dOut,          \* formatPeriod(start, end, lang): inputs / result
    \* ---- the browser ----
    navLang,            \* navigator.language (sequence of characters)
    storage,            \* localStorage['cv-lang'] (optional string)
    \* ---- the page that is loaded ----
    page,               \* "none" | "cv" | "overview" | "detail"
    pc,                 \* "unloaded" | "fetching" | "done"
    query,              \* the 'lang' query parameter of the page URL (optional)
    slug,               \* data-slug of #portfolio-detail
    activeLang,         \* let activeLang
    docLang,            \* document.documentElement.lang
    cvData,             \* let cvData (optional document)
    portfolioData,      \* let portfolioData (optional document)
    buttons,            \* language toggle buttons: data-lang -> aria attributes
    dom,                \* children of the mount nodes, document title
    mainErr,            \* <p> nodes prepended to #main by the CV bootstrap
    log,                \* renders run and signals dispatched by the handler that ran last
    thrown,             \* the handler that ran last ended with an exception
    lastOp,             \* the handler that ran last, with its argument
    chosen,             \* history: argument of the latest accepted setLang call
    anim,               \* animations.js: the bar controller and the fills it drives
    installed,          \* export server: require('puppeteer') succeeds
    reqs,               \* export server: the requests, each with the locals of its handler
    browserVar          \* export server: `let browser` of each scope -> the browser it refers to

probeVars == <<rIn, rOut, tIn, tOut, dIn, dOut>>
pageVars  == <<navLang, storage, page, pc, query, slug, activeLang, docLang,
               cvData, portfolioData, buttons, dom, mainErr, log, thrown,
               lastOp, chosen, anim>>
exportVars == <<installed, reqs, browserVar>>
vars      == <<rIn, rOut, tIn, tOut, dIn, dOut,
               navLang, storage, page, pc, query, slug, activeLang, docLang,
               cvData, portfolioData, buttons, dom, mainErr, log, thrown,
               lastOp, chosen, anim, installed, reqs, browserVar>>

(***************************************************************************)
(* Optional values                                                         *)
(***************************************************************************)
None      == << >>
Some(v)   == << v >>
IsSome(o) == Len(o) = 1
Val(o)    == o[1]

(***************************************************************************)
(* Character-level string helpers                                          *)
(***************************************************************************)
Upper == <<"A","B","C","D","E","F","G","H","I","J","K","L","M",
           "N","O","P","Q","R","S","T","U","V","W","X","Y","Z">>
Lower == <<"a","b","c","d","e","f","g","h","i","j","k","l","m",
           "n","o","p","q","r","s","t","u","v","w","x","y","z">>

\* String.prototype.toLowerCase on one character
LowerChar(c) ==
    IF \E i \in 1..Len(Upper) : Upper[i] = c
    THEN Lower[CHOOSE i \in 1..Len(Upper) : Upper[i] = c]
    ELSE c

\* String.prototype.toLowerCase
ToLowerCase(s) == [i \in 1..Len(s) |-> LowerChar(s[i])]

\* String.prototype.slice(0, n)
Slice0(s, n) == SubSeq(s, 1, IF Len(s) < n THEN Len(s) ELSE n)

\* the JavaScript string made of the characters of s
RECURSIVE JoinFrom(_, _)
JoinFrom(s, i) == IF i > Len(s) THEN "" ELSE s[i] \o JoinFrom(s, i + 1)

Join(s) == JoinFrom(s, 1)

\* s ends with the characters of suf
EndsWith(s, suf) ==
    /\ Len(suf) <= Len(s)
    /\ SubSeq(s, Len(s) - Len(suf) + 1, Len(s)) = suf

(***************************************************************************)
(* i18n helpers (cv.js 15-36, portfolio.js 510-532: the same code)         *)
(***************************************************************************)
SUPPORTED_LANGS == <<"de", "en">>

\* Array.prototype.includes on SUPPORTED_LANGS
Supported(x) == \E i \in 1..Len(SUPPORTED_LANGS) : SUPPORTED_LANGS[i] = x

\* truthiness of an optional string: null and '' are falsy
TruthyOpt(o) == IsSome(o) /\ Val(o) # ""

\* resolveInitialLang with its three reads made explicit:
\*   q      = params.get('lang')                 (optional string)
\*   stored = localStorage.getItem('cv-lang')    (optional string)
\*   nav    = navigator.language                 (optional character sequence)
\* Variant with the persisted value consulted before the query parameter.
resolveInitialLang_StoredFirst(q, stored, nav) ==
    IF TruthyOpt(stored) /\ Supported(Val(stored)) THEN Val(stored)
    ELSE IF TruthyOpt(q) /\ Supported(Val(q)) THEN Val(q)
    ELSE LET browser == Join(Slice0(ToLowerCase(IF IsSome(nav) THEN Val(nav) ELSE << >>), 2))
         IN  IF Supported(browser) THEN browser ELSE "de"

resolveInitialLang(q, stored, nav) ==
    IF TruthyOpt(q) /\ Supported(Val(q)) THEN Val(q)
    ELSE IF TruthyOpt(stored) /\ Supported(Val(stored)) THEN Val(stored)
    ELSE LET browser == Join(Slice0(ToLowerCase(IF IsSome(nav) THEN Val(nav) ELSE << >>), 2))
         IN  IF Supported(browser) THEN browser ELSE "de"

(***************************************************************************)
(* JavaScript values seen by t(): [k, s, m]                                *)
(*   k = "undefined" | "null" | "string" | "object"                        *)
(*   s = the characters of a string value                                  *)
(*   m = the own properties of an object value (key -> string)             *)
(***************************************************************************)
NoProps      == [x \in {} |-> ""]
Undefined    == [k |-> "undefined", s |-> "", m |-> NoProps]
Null         == [k |-> "null",      s |-> "", m |-> NoProps]
Str(x)       == [k |-> "string",    s |-> x,  m |-> NoProps]
Obj(props)   == [k |-> "object",    s |-> "", m |-> props]

\* ToBoolean: undefined, null and '' are falsy, every object is truthy
Truthy(v) == \/ v.k = "object"
             \/ v.k = "string" /\ v.s # ""

\* property read field[key]
Get(field, key) ==
    IF field.k = "object" /\ key \in DOMAIN field.m THEN Str(field.m[key])
    ELSE Undefined

\* a || b
JsOr(a, b) == IF Truthy(a) THEN a ELSE b

\* Variant of t without the trailing || ''.
t_NoEmptyDefault(field, lang) ==
    IF ~Truthy(field) THEN Str("")
    ELSE IF field.k = "string" THEN field
    ELSE JsOr(Get(field, lang), Get(field, "de"))

\* Variant of t that prefers the German value.
t_GermanFirst(field, lang) ==
    IF ~Truthy(field) THEN Str("")
    ELSE IF field.k = "string" THEN field
    ELSE JsOr(JsOr(Get(field, "de"), Get(field, lang)), Str(""))

\* function t(field, lang)
t(field, lang) ==
    IF ~Truthy(field) THEN Str("")
    ELSE IF field.k = "string" THEN field
    ELSE JsOr(JsOr(Get(field, lang), Get(field, "de")), Str(""))

\* t() as used by the renderers: the characters of the result
T(field, lang) == t(field, lang).s

(***************************************************************************)
(* Dates (cv.js 38-53).  Date strings are character sequences.             *)
(***************************************************************************)
DigitChars == <<"0","1","2","3","4","5","6","7","8","9">>

DigitVal(c) == (CHOOSE i \in 1..10 : DigitChars[i] = c) - 1

\* Number(str) for a string of decimal digits
RECURSIVE NumberUpTo(_, _)
NumberUpTo(s, n) == IF n = 0 THEN 0
                    ELSE 10 * NumberUpTo(s, n - 1) + DigitVal(s[n])

Number(s) == NumberUpTo(s, Len(s))

\* the decimal digits of a natural number
RECURSIVE Digits(_)
Digits(n) == IF n < 10 THEN << DigitChars[n + 1] >>
             ELSE Digits(n \div 10) \o << DigitChars[(n % 10) + 1] >>

\* String.prototype.split(sep): the pieces between the separators
\* the k-th smallest element of a set of numbers
Kth(S, k) == CHOOSE p \in S : Cardinality({q \in S : q <= p}) = k

Split(s, sep) ==
    LET at == {i \in 1..Len(s) : s[i] = sep}
        n  == Cardinality(at) + 1
    IN  [k \in 1..n |->
            SubSeq(s, IF k = 1 THEN 1 ELSE Kth(at, k - 1) + 1,
                      IF k = n THEN Len(s) ELSE Kth(at, k) - 1)]

\* Intl short month names, locale en-GB
MonthsEn == << <<"J","a","n">>, <<"F","e","b">>, <<"M","a","r">>,
               <<"A","p","r">>, <<"M","a","y">>, <<"J","u","n">>,
               <<"J","u","l">>, <<"A","u","g">>, <<"S","e","p","t">>,
               <<"O","c","t">>, <<"N","o","v">>, <<"D","e","c">> >>

\* Intl short month names, locale de-DE
MonthsDe == << <<"J","a","n",".">>, <<"F","e","b",".">>, <<"M","U+00E4","r","z">>,
               <<"A","p","r",".">>, <<"M","a","i">>, <<"J","u","n","i">>,
               <<"J","u","l","i">>, <<"A","u","g",".">>, <<"S","e","p","t",".">>,
               <<"O","k","t",".">>, <<"N","o","v",".">>, <<"D","e","z",".">> >>

\* new Date(year, monthIndex).toLocaleDateString(locale, {month:'short', year:'numeric'})
\* Date() maps the years 0..99 to 1900..1999 and carries a month index
\* outside 0..11 into the year.
ToLocaleDateString(year, monthIndex, locale) ==
    LET y0 == IF year >= 0 /\ year <= 99 THEN 1900 + year ELSE year
        y  == y0 + (monthIndex \div 12)
        m  == (monthIndex % 12) + 1
        names == IF locale = "de-DE" THEN MonthsDe ELSE MonthsEn
    IN  names[m] \o <<" ">> \o Digits(y)

HEUTE   == <<"h","e","u","t","e">>
PRESENT == <<"p","r","e","s","e","n","t">>

\* !str for an optional character sequence
FalsyChars(o) == ~IsSome(o) \/ Val(o) = << >>

\* Variant of formatDate with the two tokens exchanged.
formatDate_TokensSwapped(str, lang) ==
    IF FalsyChars(str) THEN (IF lang = "de" THEN PRESENT ELSE HEUTE)
    ELSE LET parts == Split(Val(str), "-")
             year  == parts[1]
             month == IF Len(parts) >= 2 THEN Some(parts[2]) ELSE None
         IN  IF FalsyChars(month) THEN year
             ELSE ToLocaleDateString(Number(year), Number(Val(month)) - 1,
                                     IF lang = "de" THEN "de-DE" ELSE "en-GB")

\* function formatDate(str, lang)
formatDate(str, lang) ==
    IF FalsyChars(str) THEN (IF lang = "de" THEN HEUTE ELSE PRESENT)
    ELSE LET parts == Split(Val(str), "-")
             year  == parts[1]
             month == IF Len(parts) >= 2 THEN Some(parts[2]) ELSE None
         IN  IF FalsyChars(month) THEN year
             ELSE ToLocaleDateString(Number(year), Number(Val(month)) - 1,
                                     IF lang = "de" THEN "de-DE" ELSE "en-GB")

\* the separator of the template literal: space, U+2013 EN DASH, space
\* (a character outside ASCII is written by its code point)
EN_DASH_SEP == <<" ", "U+2013", " ">>

\* function formatPeriod(start, end, lang)
formatPeriod(start, end, lang) ==
    formatDate(start, lang) \o EN_DASH_SEP \o formatDate(end, lang)

\* date strings used as inputs
Chars_2020_03 == <<"2","0","2","0","-","0","3">>
Chars_2019_12 == <<"2","0","1","9","-","1","2">>
Chars_2020    == <<"2","0","2","0">>
Chars_2020_   == <<"2","0","2","0","-">>
Chars_2021_13 == <<"2","0","2","1","-","1","3">>
Chars_2018_00 == <<"2","0","1","8","-","0","0">>

(***************************************************************************)
(* Content documents.  An array that may be absent is an optional          *)
(* sequence.  Only the fields the renderers branch on or localize are      *)
(* kept; markup details (links, tags, icons, misc tags) are left out.      *)
(***************************************************************************)
DeEn(d, e) == Obj([de |-> d, en |-> e])

JobSedo == [company |-> "Sedo", start |-> Some(Chars_2020_03), end |-> None,
            roles |-> Some(<< [title |-> DeEn("Leitung", "Lead"),
                               start |-> Some(Chars_2020_03), end |-> None] >>)]
JobNoRoles == [company |-> "VR", start |-> Some(Chars_2019_12),
               end |-> Some(Chars_2020_03), roles |-> None]

CvFull ==
    [meta           |-> Some([email |-> "mail", website |-> "site"]),
     summary        |-> DeEn("Profil", "Profile"),
     experience     |-> Some(<< JobSedo >>),
     education      |-> Some(<< [degree |-> DeEn("Diplom", "Diploma"),
                                 start |-> Some(Chars_2020), end |-> Some(Chars_2020)] >>),
     skills         |-> Some([specialized |-> Some(<< [name |-> DeEn("Forschung", "Research"),
                                                       level |-> 4, max |-> 5] >>),
                              tools       |-> Some(<< [name |-> "Figma",
                                                       level |-> 5, max |-> 5] >>)]),
     languages      |-> Some(<< [name |-> DeEn("Englisch", "English"),
                                 label |-> DeEn("fliessend", "fluent"),
                                 level |-> 4, max |-> 5] >>),
     certifications |-> Some(<< [title |-> DeEn("Zertifikat", "Certificate")] >>),
     projects       |-> Some(<< [title |-> Obj([de |-> "Projekt"]),
                                 start |-> Some(Chars_2020), end |-> None] >>)]

\* the same document without its education array
CvNoEducation == [CvFull EXCEPT !.education = None]

\* a second job whose roles array is absent
CvJobNoRoles == [CvFull EXCEPT !.experience = Some(<< JobSedo, JobNoRoles >>)]

\* every array present and empty
CvEmptyArrays ==
    [meta           |-> Some([email |-> "mail", website |-> "site"]),
     summary        |-> Str("Profil"),
     experience     |-> Some(<< >>),
     education      |-> Some(<< >>),
     skills         |-> Some([specialized |-> Some(<< >>), tools |-> Some(<< >>)]),
     languages      |-> Some(<< >>),
     certifications |-> Some(<< >>),
     projects       |-> Some(<< >>)]

\* the same document with one of the other arrays absent
CvNoExperience     == [CvFull EXCEPT !.experience = None]
CvNoSpecialized    ==
    [CvFull EXCEPT !.skills = Some([Val(CvFull.skills) EXCEPT !.specialized = None])]
CvNoTools          ==
    [CvFull EXCEPT !.skills = Some([Val(CvFull.skills) EXCEPT !.tools = None])]
CvNoLanguages      == [CvFull EXCEPT !.languages = None]
CvNoCertifications == [CvFull EXCEPT !.certifications = None]
CvNoProjects       == [CvFull EXCEPT !.projects = None]

CvDocs == {CvFull, CvNoEducation, CvJobNoRoles, CvEmptyArrays,
           CvNoExperience, CvNoSpecialized, CvNoTools, CvNoLanguages,
           CvNoCertifications, CvNoProjects}

(***************************************************************************)
(* The DOM: the children of every mount node, the section headings, the    *)
(* document title and the download link.  The field err is set while a     *)
(* render is running and a TypeError has ended it.                         *)
(***************************************************************************)
NoOp == [op |-> "none", arg |-> ""]

EmptyDom ==
    [contact |-> << >>, summary |-> "", experience |-> << >>,
     education |-> << >>, skills |-> << >>, languages |-> << >>,
     certs |-> << >>, projects |-> << >>,
     headings |-> "", title |-> "", download |-> "",
     sub |-> "", overview |-> << >>, detail |-> << >>,
     err |-> FALSE]

\* Array.prototype.map over a sequence
Map(seq, F(_)) == [i \in 1..Len(seq) |-> F(seq[i])]

\* what a section renderer leaves in its mount node, and whether it threw
Rendered(children) == [children |-> children, err |-> FALSE]
Threw(children)    == [children |-> children, err |-> TRUE]

(***************************************************************************)
(* CV section renderers (cv.js 57-411).  Each takes the children its mount *)
(* node has (old) and yields the children it leaves there.                 *)
(***************************************************************************)
\* buildBar: the meter label reads the ambient activeLang (al), the fill
\* starts at 0
buildBar(level, max, label, fillClass, al) ==
    [level |-> level, max |-> max,
     label |-> label \o ": " \o (IF al = "de" THEN "von" ELSE "of"),
     word |-> IF al = "de" THEN "von" ELSE "of",
     cls |-> fillClass,
     fill |-> 0]

renderContact(old, meta) ==
    IF ~IsSome(meta) THEN Threw(<< >>)
    ELSE Rendered(<< Val(meta).email, Val(meta).website >>)

renderSummary(old, data, lang) == Rendered(T(data.summary, lang))

\* one role of a job
RoleNode(role, lang) ==
    [title |-> T(role.title, lang),
     period |-> Join(formatPeriod(role.start, role.end, lang))]

\* one <article> of the experience timeline
JobNode(job, lang) ==
    [company |-> job.company,
     period |-> Join(formatPeriod(job.start, job.end, lang)),
     roles |-> LET R(role) == RoleNode(role, lang) IN Map(Val(job.roles), R)]

\* the jobs before the first job whose roles array is absent
GoodJobs(jobs) ==
    IF \E i \in 1..Len(jobs) : ~IsSome(jobs[i].roles)
    THEN SubSeq(jobs, 1, (CHOOSE i \in 1..Len(jobs) :
                              /\ ~IsSome(jobs[i].roles)
                              /\ \A k \in 1..(i - 1) : IsSome(jobs[k].roles)) - 1)
    ELSE jobs

\* Variant of renderExperience that keeps the children already there.
renderExperience_Append(old, data, lang) ==
    IF ~IsSome(data.experience) THEN Threw(old)
    ELSE LET jobs == Val(data.experience)
             J(job) == JobNode(job, lang)
         IN  [children |-> old \o Map(GoodJobs(jobs), J),
              err |-> GoodJobs(jobs) # jobs]

renderExperience(old, data, lang) ==
    IF ~IsSome(data.experience) THEN Threw(<< >>)
    ELSE LET jobs == Val(data.experience)
             J(job) == JobNode(job, lang)
         IN  [children |-> Map(GoodJobs(jobs), J),
              err |-> GoodJobs(jobs) # jobs]

renderEducation(old, data, lang) ==
    IF ~IsSome(data.education) THEN Threw(<< >>)
    ELSE LET E(edu) == [period |-> Join(formatPeriod(edu.start, edu.end, lang)),
                        degree |-> T(edu.degree, lang),
                        grade  |-> IF lang = "de" THEN "Note" ELSE "Grade"]
         IN  Rendered(Map(Val(data.education), E))

renderSkills(old, data, lang, al) ==
    LET S(skill) == [name |-> T(skill.name, lang),
                     bar  |-> buildBar(skill.level, skill.max, T(skill.name, lang),
                                      "cv-skill__bar-fill", al)]
        U(skill) == [name |-> skill.name,
                     bar  |-> buildBar(skill.level, skill.max, skill.name,
                                      "cv-skill__bar-fill", al)]
        specTitle == T(DeEn("Spezialisierung", "Specialization"), lang)
        toolTitle == T(DeEn("Tools & Technologie", "Tools & Technology"), lang)
        miscTitle == T(DeEn("Weitere Kenntnisse", "Miscellaneous"), lang)
    IN  IF ~IsSome(data.skills) THEN Threw(<< >>)
        ELSE IF ~IsSome(Val(data.skills).specialized) THEN Threw(<< >>)
        ELSE IF ~IsSome(Val(data.skills).tools)
        THEN Threw(<< [title |-> specTitle,
                       items |-> Map(Val(Val(data.skills).specialized), S)] >>)
        ELSE Rendered(<< [title |-> specTitle,
                          items |-> Map(Val(Val(data.skills).specialized), S)],
                         [title |-> toolTitle,
                          items |-> Map(Val(Val(data.skills).tools), U)],
                         [title |-> miscTitle, items |-> << >>] >>)

renderLanguages(old, data, lang, al) ==
    IF ~IsSome(data.languages) THEN Threw(<< >>)
    ELSE LET L(language) ==
                 [name  |-> T(language.name, lang),
                  label |-> T(language.label, lang),
                  bar   |-> buildBar(language.level, language.max,
                                     T(language.name, lang),
                                     "cv-lang__bar-fill", al)]
         IN  Rendered(Map(Val(data.languages), L))

renderCertifications(old, data, lang) ==
    IF ~IsSome(data.certifications) THEN Threw(<< >>)
    ELSE LET C(cert) == [title |-> T(cert.title, lang)]
         IN  Rendered(Map(Val(data.certifications), C))

renderProjects(old, data, lang) ==
    IF ~IsSome(data.projects) THEN Threw(<< >>)
    ELSE LET P(project) ==
                 [title  |-> T(project.title, lang),
                  period |-> IF FalsyChars(project.start) THEN ""
                             ELSE IF ~FalsyChars(project.end)
                             THEN Join(Val(project.start) \o EN_DASH_SEP \o Val(project.end))
                             ELSE (IF lang = "de" THEN "seit" ELSE "since")
                                      \o " " \o Join(Val(project.start))]
         IN  Rendered(Map(Val(data.projects), P))

\* SECTION_LABELS[key][lang] || SECTION_LABELS[key]['de'] for one heading,
\* the page title and the PDF link
updateSectionHeadings(lang) ==
    [headings |-> T(DeEn("Berufserfahrung", "Work Experience"), lang),
     title    |-> IF lang = "en" THEN "CV" ELSE "Lebenslauf",
     download |-> "/export/cv.pdf?lang=" \o lang]

\* renderAll(data, lang) on the DOM d, with al the ambient activeLang: the
\* eight section renderers and updateSectionHeadings run in order and the
\* first TypeError ends the render, leaving the later mount nodes as they
\* were.  The result is the DOM with err telling whether the render threw.
renderAll(d, data, lang, al) ==
    LET \* the number of the step at which the render ended (9: none threw)
        Ended(errs) ==
            IF \E i \in 1..8 : errs[i]
            THEN CHOOSE i \in 1..8 : errs[i] /\ \A k \in 1..(i - 1) : ~errs[k]
            ELSE 9
        Build(ran) ==
            [contact    |-> renderContact(d.contact, data.meta).children,
             summary    |-> IF ran >= 2
                            THEN renderSummary(d.summary, data, lang).children
                            ELSE d.summary,
             experience |-> IF ran >= 3
                            THEN renderExperience(d.experience, data, lang).children
                            ELSE d.experience,
             education  |-> IF ran >= 4
                            THEN renderEducation(d.education, data, lang).children
                            ELSE d.education,
             skills     |-> IF ran >= 5
                            THEN renderSkills(d.skills, data, lang, al).children
                            ELSE d.skills,
             languages  |-> IF ran >= 6
                            THEN renderLanguages(d.languages, data, lang, al).children
                            ELSE d.languages,
             certs      |-> IF ran >= 7
                            THEN renderCertifications(d.certs, data, lang).children
                            ELSE d.certs,
             projects   |-> IF ran >= 8
                            THEN renderProjects(d.projects, data, lang).children
                            ELSE d.projects,
             headings   |-> IF ran = 9 THEN updateSectionHeadings(lang).headings
                            ELSE d.headings,
             title      |-> IF ran = 9 THEN updateSectionHeadings(lang).title
                            ELSE d.title,
             download   |-> IF ran = 9 THEN updateSectionHeadings(lang).download
                            ELSE d.download,
             sub        |-> d.sub,
             overview   |-> d.overview,
             detail     |-> d.detail,
             err        |-> ran # 9]
    IN  CHOOSE r \in
            {Build(ran) : ran \in
                {Ended(errs) : errs \in
                    {<< renderContact(d.contact, data.meta).err,
                        renderSummary(d.summary, data, lang).err,
                        renderExperience(d.experience, data, lang).err,
                        renderEducation(d.education, data, lang).err,
                        renderSkills(d.skills, data, lang, al).err,
                        renderLanguages(d.languages, data, lang, al).err,
                        renderCertifications(d.certs, data, lang).err,
                        renderProjects(d.projects, data, lang).err >>}}} : TRUE

\* the DOM left behind by a render
Settled(d) == [d EXCEPT !.err = FALSE]

\* the items of the skill groups from group g on, in document order
RECURSIVE ItemsFrom(_, _)
ItemsFrom(groups, g) ==
    IF g > Len(groups) THEN << >>
    ELSE groups[g].items \o ItemsFrom(groups, g + 1)

\* the fill elements below #cv-skills and below #cv-languages
BarsIn(d, target) ==
    LET items == IF target = "cv-skills" THEN ItemsFrom(d.skills, 1)
                 ELSE d.languages
    IN  [i \in 1..Len(items) |-> items[i].bar]

\* every fill element of the document, in document order
BarsOf(d) == BarsIn(d, "cv-skills") \o BarsIn(d, "cv-languages")

(***************************************************************************)
(* Portfolio documents and renderers (portfolio.js 831-1127)               *)
(***************************************************************************)
\* a flag of a project record that may be absent: `if (project.flag)`
Flag(o) == IsSome(o) /\ Val(o)

ProjectB2B ==
    [slug |-> "b2b", title |-> DeEn("Plattform", "Platform"),
     confidential |-> Some(TRUE), wip |-> None, tags |-> Some(<< "UX", "IA" >>),
     sections |-> Some(<< [type |-> "text"], [type |-> "gallery"],
                          [type |-> "insight"] >>)]
ProjectWip ==
    [slug |-> "evidoxa", title |-> Obj([de |-> "Evidoxa"]),
     confidential |-> Some(FALSE), wip |-> Some(TRUE), tags |-> None,
     sections |-> None]
\* confidential, no authored block
ProjectSecret ==
    [slug |-> "secret", title |-> DeEn("Geheim", "Secret"),
     confidential |-> Some(TRUE), wip |-> Some(FALSE), tags |-> Some(<< "IA" >>),
     sections |-> Some(<< >>)]
\* no confidential flag, one authored block
ProjectPlain(sl) ==
    [slug |-> sl, title |-> Str(sl),
     confidential |-> None, wip |-> None, tags |-> Some(<< "UX" >>),
     sections |-> Some(<< [type |-> "stat_bar"] >>)]

PfFour == [projects |-> Some(<< ProjectB2B, ProjectWip, ProjectSecret,
                                ProjectPlain("p4") >>)]
PfFive == [projects |-> Some(<< ProjectB2B, ProjectWip, ProjectSecret,
                                ProjectPlain("p4"), ProjectPlain("p5") >>)]
PfNoProjects == [projects |-> None]

PortfolioDocs == {PfFour, PfFive, PfNoProjects}

\* data-slug values of the case study shells; "B2B" and "p5" match no
\* project of some or all documents
PageSlugs == {"b2b", "evidoxa", "secret", "p5", "B2B"}

KnownBlockTypes == {"stat_bar", "text", "timeline", "method_grid", "insight",
                    "challenge_approach_outcome", "visual_slots", "key_takeaways"}

\* a wrapper div.case-study__block with its data-reveal tag
Wrapper(kind, text) == [kind |-> kind, text |-> text, reveal |-> TRUE]

\* Variant of renderBlock that renders a placeholder for an unknown type.
renderBlock_Placeholder(block) == Some(Wrapper(block.type, ""))

\* renderBlock: a node for a known type, null for any other (the node is
\* shown already wrapped)
renderBlock(block) ==
    IF block.type \in KnownBlockTypes THEN Some(Wrapper(block.type, ""))
    ELSE None

\* value || [] for an optional array
OrEmpty(o) == IF IsSome(o) THEN Val(o) ELSE << >>

\* the rendered wrappers of a section list, in source order
Blocks(sections) ==
    LET NotNull(block) == IsSome(renderBlock(block))
        Node(block)    == Val(renderBlock(block))
    IN  Map(SelectSeq(sections, NotNull), Node)

\* [...new Set(list)]: first occurrences, in order
Unique(list) ==
    LET first == {i \in 1..Len(list) : \A k \in 1..(i - 1) : list[k] # list[i]}
    IN  [k \in 1..Cardinality(first) |-> list[Kth(first, k)]]

\* projects.flatMap(p => p.tags || [])
RECURSIVE FlatTagsFrom(_, _)
FlatTagsFrom(projects, i) ==
    IF i > Len(projects) THEN << >>
    ELSE OrEmpty(projects[i].tags) \o FlatTagsFrom(projects, i + 1)

FlatTags(projects) == FlatTagsFrom(projects, 1)

\* the filter bar appears above this number of projects
FILTER_THRESHOLD == 4

\* Variant of the filter-bar test that includes the threshold itself.
NeedsFilterBar_AtThreshold(projects) == Len(projects) >= FILTER_THRESHOLD

\* if (projects.length > 4)
NeedsFilterBar(projects) == Len(projects) > FILTER_THRESHOLD

buildFilterBar(projects, al) ==
    [kind  |-> "filter",
     label |-> IF al = "de" THEN "Nach Thema filtern" ELSE "Filter by topic",
     items |-> LET B(tag) == [tag |-> tag, pressed |-> "false"]
               IN  Map(Unique(FlatTags(projects)), B)]

buildProjectCard(project, al) ==
    [href   |-> "/portfolio/" \o project.slug \o "/",
     badge  |-> IF Flag(project.wip)
                THEN (IF al = "de" THEN "In Arbeit" ELSE "In Progress")
                ELSE IF Flag(project.confidential)
                THEN (IF al = "de" THEN "Vertraulich" ELSE "Confidential")
                ELSE "",
     title  |-> T(project.title, al),
     cta    |-> IF al = "de" THEN "Zum Projekt" ELSE "View project",
     reveal |-> TRUE]

\* Variant of renderOverview that appends to the children already there.
renderOverview_Append(d, data, al) ==
    LET projects == OrEmpty(data.projects)
        C(project) == buildProjectCard(project, al)
    IN  [d EXCEPT
           !.sub = IF al = "de" THEN "Ausgewaehlte Projekte" ELSE "Selected projects",
           !.overview =
               d.overview
               \o (IF NeedsFilterBar(projects)
                   THEN << buildFilterBar(projects, al) >> ELSE << >>)
               \o << [kind |-> "grid", label |-> "", items |-> Map(projects, C)] >>]

\* renderOverview(data), reading the ambient activeLang (al)
renderOverview(d, data, al) ==
    LET projects == OrEmpty(data.projects)
        C(project) == buildProjectCard(project, al)
    IN  [d EXCEPT
           !.sub = IF al = "de" THEN "Ausgewaehlte Projekte" ELSE "Selected projects",
           !.overview =
               (IF NeedsFilterBar(projects)
                THEN << buildFilterBar(projects, al) >> ELSE << >>)
               \o << [kind |-> "grid", label |-> "", items |-> Map(projects, C)] >>]

\* the click listener of a filter button: aria-pressed flips, nothing else
ToggleFilter(ov, k) ==
    [i \in 1..Len(ov) |->
        IF ov[i].kind = "filter"
        THEN [ov[i] EXCEPT !.items[k].pressed =
                 IF ov[i].items[k].pressed = "true" THEN "false" ELSE "true"]
        ELSE ov[i]]

\* Variant of the slug lookup that falls back to the first project.
FindProject_FirstIfMissing(data, sl) ==
    LET projects == OrEmpty(data.projects)
    IN  IF \E i \in 1..Len(projects) : projects[i].slug = sl
        THEN Some(projects[CHOOSE i \in 1..Len(projects) :
                               /\ projects[i].slug = sl
                               /\ \A k \in 1..(i - 1) : projects[k].slug # sl])
        ELSE IF projects # << >> THEN Some(projects[1]) ELSE None

\* (data.projects || []).find(p => p.slug === slug)
FindProject(data, sl) ==
    LET projects == OrEmpty(data.projects)
    IN  IF \E i \in 1..Len(projects) : projects[i].slug = sl
        THEN Some(projects[CHOOSE i \in 1..Len(projects) :
                               /\ projects[i].slug = sl
                               /\ \A k \in 1..(i - 1) : projects[k].slug # sl])
        ELSE None

buildCaseStudyHeader(project, al) ==
    [title |-> T(project.title, al),
     wip   |-> IF Flag(project.wip)
               THEN (IF al = "de" THEN "In Arbeit / Work in Progress"
                     ELSE "Work in Progress / In Arbeit")
               ELSE ""]

\* the label of the disclaimer
renderDisclaimer(al) == IF al = "de" THEN "Vertraulich" ELSE "Confidential"

\* Variant of the case study body with the disclaimer ahead of the blocks.
DetailBlocks_DisclaimerFirst(project, al) ==
    (IF Flag(project.confidential)
     THEN << Wrapper("disclaimer", renderDisclaimer(al)) >> ELSE << >>)
    \o Blocks(OrEmpty(project.sections))

\* the children of the case study body: the authored blocks, then the
\* disclaimer of a confidential project
DetailBlocks(project, al) ==
    Blocks(OrEmpty(project.sections))
    \o (IF Flag(project.confidential)
        THEN << Wrapper("disclaimer", renderDisclaimer(al)) >> ELSE << >>)

\* renderDetail(data, slug), reading the ambient activeLang (al)
renderDetail(d, data, sl, al) ==
    LET found == FindProject(data, sl)
    IN  IF ~IsSome(found) THEN d
        ELSE LET project == Val(found)
             IN  [d EXCEPT
                    !.title  = T(project.title, al) \o " - Mathis Thomsen",
                    !.detail =
                      << [kind |-> "topbar",
                          header |-> [title |-> IF al = "de" THEN "Seiten-Navigation"
                                                ELSE "Page navigation", wip |-> ""],
                          blocks |-> << >>],
                         [kind |-> "main",
                          header |-> buildCaseStudyHeader(project, al),
                          blocks |-> DetailBlocks(project, al)],
                         [kind |-> "footer", header |-> [title |-> "", wip |-> ""],
                          blocks |-> << >>] >>]

\* buildLangToggle: one button per supported language
\* Variant of the toggle that always presses the German button.
buildLangToggle_GermanPressed(al) ==
    [l \in {SUPPORTED_LANGS[i] : i \in 1..Len(SUPPORTED_LANGS)} |->
        [pressed |-> IF l = "de" THEN "true" ELSE "false",
         label   |-> IF l = "de" THEN "Auf Deutsch wechseln" ELSE "Switch to English"]]

buildLangToggle(al) ==
    [l \in {SUPPORTED_LANGS[i] : i \in 1..Len(SUPPORTED_LANGS)} |->
        [pressed |-> IF l = al THEN "true" ELSE "false",
         label   |-> IF l = "de" THEN "Auf Deutsch wechseln" ELSE "Switch to English"]]

(***************************************************************************)
(* The page before anything is loaded                                      *)
(***************************************************************************)
\* the containers initSkillBars looks for
BarTargets == {"cv-skills", "cv-languages"}

\* animations.js in a fresh document: motion is prefersMotion.matches,
\* barsAnimated is _barsAnimated, observers counts the observers that
\* initSkillBars created, observed holds the containers its observer still
\* watches, timers the pending setTimeout callbacks (bar i of a container;
\* attached: the bar is still in the document), fills the --bar-fill of the
\* bars in the document, refilled (history) whether an activation has set
\* the fills at once
IdleAnim(motion) ==
    [motion       |-> motion,
     barsAnimated |-> FALSE,
     observers    |-> 0,
     observed     |-> {},
     timers       |-> {},
     fills        |-> [tg \in BarTargets |-> << >>],
     refilled     |-> FALSE]

\* the visitor prefers reduced motion
NoBars == anim = IdleAnim(FALSE)

NoPage ==
    /\ page = "none" /\ pc = "unloaded" /\ query = None /\ slug = ""
    /\ activeLang = "de" /\ docLang = ""
    /\ cvData = None /\ portfolioData = None
    /\ buttons = NoProps /\ dom = EmptyDom /\ mainErr = << >>
    /\ log = << >> /\ thrown = FALSE /\ lastOp = NoOp /\ chosen = None

NoProbe ==
    /\ rIn = None /\ rOut = None
    /\ tIn = None /\ tOut = None
    /\ dIn = None /\ dOut = None

(***************************************************************************)
(* The export server before any request (export.js)                        *)
(***************************************************************************)
\* the requests in flight at the same time
Requests == {"r1", "r2"}

\* a request the server has not received yet; browser is the state of the
\* browser process this request launched (processes are named after the
\* request that launched them), pageIn the
\* browser its page was opened in, closes the browsers its finally block
\* closed, page* describe the document inside its page (bars:
\* its fill elements, reveals: its [data-reveal] elements with whether they
\* carry is-visible), trace lists the steps of the handler that have completed
IdleReq ==
    [pc        |-> "idle",
     trace     |-> << >>,
     q         |-> None,
     lang      |-> << >>,
     browser   |-> "undefined",
     pageIn    |-> "undefined",
     closes    |-> {},
     seed      |-> None,
     pageQuery |-> None,
     pageNav   |-> None,
     pageLang  |-> "",
     bars      |-> << >>,
     reveals   |-> << >>,
     failed    |-> "",
     responses |-> << >>]

\* the scopes a `browser` variable can live in
Scopes == Requests \cup {"module"}

NoExport ==
    /\ installed = TRUE
    /\ reqs = [r \in Requests |-> IdleReq]
    /\ browserVar = [sc \in Scopes |-> "undefined"]

(***************************************************************************)
(* Calls of the pure helpers on inputs drawn from bounded sets             *)
(***************************************************************************)
Chars_enUS == <<"e","n","-","U","S">>
Chars_deDE == <<"d","e","-","D","E">>
Chars_frFR == <<"f","r","-","F","R">>
Chars_ENGB == <<"E","N","-","G","B">>
Chars_DE   == <<"D","E">>
Chars_e    == <<"e">>

QueryVals  == {None, Some(""), Some("de"), Some("en"), Some("fr"), Some("EN")}
StoredVals == {None, Some(""), Some("de"), Some("en"), Some("fr"), Some("EN")}
NavVals    == {None, Some(<< >>), Some(Chars_enUS), Some(Chars_deDE),
               Some(Chars_frFR), Some(Chars_ENGB), Some(Chars_DE), Some(Chars_e)}

InitResolve ==
    /\ rIn \in {Some(x) : x \in [q : QueryVals, stored : StoredVals, nav : NavVals]}
    /\ rOut = None
    /\ tIn = None /\ tOut = None /\ dIn = None /\ dOut = None
    /\ navLang = Some(Chars_deDE) /\ storage = None
    /\ NoPage /\ NoBars /\ NoExport

CallResolve ==
    /\ IsSome(rIn) /\ rOut = None
    /\ rOut' = Some(resolveInitialLang(Val(rIn).q, Val(rIn).stored, Val(rIn).nav))
    /\ UNCHANGED <<rIn, tIn, tOut, dIn, dOut>>
    /\ UNCHANGED <<pageVars, exportVars>>

NextResolve == CallResolve

SpecResolve == InitResolve /\ [][NextResolve]_vars

TextVals == {"", "Hallo", "Hello"}
PropKeys == {"de", "en", "fr"}
LangArgs == {"de", "en", "fr", ""}

FieldVals ==
    {Undefined, Null}
    \cup {Str(x) : x \in TextVals}
    \cup UNION {{Obj(m) : m \in [K -> TextVals]} : K \in SUBSET PropKeys}

InitT ==
    /\ tIn \in {Some(x) : x \in [field : FieldVals, lang : LangArgs]}
    /\ tOut = None
    /\ rIn = None /\ rOut = None /\ dIn = None /\ dOut = None
    /\ navLang = Some(Chars_deDE) /\ storage = None
    /\ NoPage /\ NoBars /\ NoExport

CallT ==
    /\ IsSome(tIn) /\ tOut = None
    /\ tOut' = Some(t(Val(tIn).field, Val(tIn).lang))
    /\ UNCHANGED <<rIn, rOut, tIn, dIn, dOut>>
    /\ UNCHANGED <<pageVars, exportVars>>

NextT == CallT

SpecT == InitT /\ [][NextT]_vars

DateVals == {None, Some(<< >>), Some(Chars_2020_03), Some(Chars_2019_12),
             Some(Chars_2020), Some(Chars_2020_), Some(Chars_2021_13),
             Some(Chars_2018_00)}
DateLangs == {"de", "en", "fr"}

InitDate ==
    /\ dIn \in {Some(x) : x \in [start : DateVals, end : DateVals, lang : DateLangs]}
    /\ dOut = None
    /\ rIn = None /\ rOut = None /\ tIn = None /\ tOut = None
    /\ navLang = Some(Chars_deDE) /\ storage = None
    /\ NoPage /\ NoBars /\ NoExport

CallFormatPeriod ==
    /\ IsSome(dIn) /\ dOut = None
    /\ dOut' = Some(formatPeriod(Val(dIn).start, Val(dIn).end, Val(dIn).lang))
    /\ UNCHANGED <<rIn, rOut, tIn, tOut, dIn>>
    /\ UNCHANGED <<pageVars, exportVars>>

NextDate == CallFormatPeriod

SpecDate == InitDate /\ [][NextDate]_vars

(***************************************************************************)
(* The page life cycle.  Each action is one run-to-completion handler:     *)
(* the synchronous part of init up to its fetch, the continuation of init  *)
(* after the fetch, or one call of setLang.                                *)
(***************************************************************************)
\* The static shell of cv/index.html: two toggle buttons inside the
\* .cv-lang-toggle group, the element #main and all eight mount nodes.
CvShellButtons == {"de", "en"}
CvShellHasMain == TRUE
CvShellHasToggle == TRUE

Ev(what, detail) == [what |-> what, detail |-> detail]

QueryArgs == {None, Some("de"), Some("en"), Some("fr")}
NavArgs   == {Some(Chars_enUS), Some(Chars_frFR), Some(Chars_DE)}

\* Variant of the setLang guard that lets every code through.
setLangAccepts_Any(lang) == TRUE

\* if (!SUPPORTED_LANGS.includes(lang)) return;
setLangAccepts(lang) == Supported(lang)

\* Variant of persist that leaves the stored value alone.
persist_Skip(old, lang) == old

\* localStorage.setItem(STORAGE_KEY, lang)
persist(old, lang) == Some(lang)

\* Variant of the fallback message that ignores the language.
errorMessage_AlwaysGerman(al) ==
    "CV-Daten konnten nicht geladen werden. Bitte Seite neu laden."

\* the text of the fallback message
errorMessage(al) ==
    IF al = "de" THEN "CV-Daten konnten nicht geladen werden. Bitte Seite neu laden."
    ELSE "Could not load CV data. Please reload the page."

\* aria-label of a CV toggle button with data-lang l when lang is chosen
CvButtonLabel(l, lang) ==
    IF l = "de" THEN (IF lang = "de" THEN "Deutsch aktiv" ELSE "Auf Deutsch wechseln")
    ELSE (IF lang = "en" THEN "English active" ELSE "Switch to English")

\* Variant of the signals of setLang with the two events exchanged.
CvSetLangSignals_Swapped(hasData, lang) ==
    (IF CvShellHasToggle THEN << Ev("lang-changed", lang) >> ELSE << >>)
    \o (IF hasData THEN << Ev("renderAll", lang), Ev("cv-rendered", "") >> ELSE << >>)

\* Variant of setLang that fetches the document again when none is loaded.
CvSetLangSignals_Refetch(hasData, lang) ==
    (IF hasData THEN << Ev("renderAll", lang), Ev("cv-rendered", "") >>
     ELSE << Ev("fetch", "/data/cv.json") >>)
    \o (IF CvShellHasToggle THEN << Ev("lang-changed", lang) >> ELSE << >>)

\* what setLang runs and dispatches after the toggle buttons are updated,
\* when renderAll returns normally
CvSetLangSignals(hasData, lang) ==
    (IF hasData THEN << Ev("renderAll", lang), Ev("cv-rendered", "") >> ELSE << >>)
    \o (IF CvShellHasToggle THEN << Ev("lang-changed", lang) >> ELSE << >>)

\* the data-level of every bar of a container
Levels(d, target) ==
    [i \in 1..Len(BarsIn(d, target)) |-> BarsIn(d, target)[i].level]

\* renderSkills and renderLanguages have replaced the bars: the new ones
\* start at the fill buildBar gave them, the bars of pending timers are no
\* longer in the document
Rerendered(a, d) ==
    [a EXCEPT !.fills = [tg \in BarTargets |->
                            [i \in 1..Len(BarsIn(d, tg)) |-> BarsIn(d, tg)[i].fill]],
              !.timers = {[tm EXCEPT !.attached = FALSE] : tm \in a.timers}]

\* Variant of the test of initSkillBars that fills at once only with
\* reduced motion.
fillsAtOnce_ReducedOnly(motion, animated) == ~motion

\* if (!prefersMotion.matches || _barsAnimated)
fillsAtOnce(motion, animated) == ~motion \/ animated

\* initSkillBars, the handler of 'cv-rendered', on the document d
initSkillBars(a, d) ==
    IF fillsAtOnce(a.motion, a.barsAnimated)
    THEN [a EXCEPT !.fills = [tg \in BarTargets |-> Levels(d, tg)],
                   !.refilled = TRUE]
    ELSE [a EXCEPT !.observers = @ + 1,
                   !.barsAnimated = TRUE,
                   !.observed = BarTargets]

\* the bar controller after renderAll left the document d and, unless it
\* threw, 'cv-rendered' was dispatched
AfterRender(a, d) ==
    IF d.err THEN Rerendered(a, d) ELSE initSkillBars(Rerendered(a, d), d)

\* Variant of the timer callback that writes the maximum of the bar.
timerValue_Max(bar) == bar.max

\* the timer callback: bar.style.setProperty('--bar-fill', bar.dataset.level)
timerValue(bar) == bar.level

\* Variant of the initial toggle state that presses no button.
initialPressed_None(l, al) == "false"

\* String(btn.dataset.lang === activeLang)
initialPressed(l, al) == IF l = al THEN "true" ELSE "false"

\* init of cv.js up to `await fetch`
CvLoad(q) ==
    LET al == resolveInitialLang(q, storage, navLang)
    IN  /\ page' = "cv" /\ pc' = "fetching" /\ query' = q /\ slug' = ""
        /\ activeLang' = al
        /\ docLang' = al
        /\ buttons' = [l \in CvShellButtons |->
                          [pressed |-> initialPressed(l, al),
                           label |-> "shell"]]
        /\ cvData' = None /\ portfolioData' = None
        /\ dom' = EmptyDom /\ mainErr' = << >>
        /\ log' = << Ev("fetch", "/data/cv.json") >>
        /\ thrown' = FALSE
        /\ lastOp' = [op |-> "load", arg |-> "cv"]
        /\ anim' = IdleAnim(anim.motion)
        /\ UNCHANGED <<navLang, storage, chosen>>
        /\ UNCHANGED <<probeVars, exportVars>>

\* Variant of the first render that resolves the initial language again.
firstRenderLang_Resolved(al, q, stored, nav) == resolveInitialLang(q, stored, nav)

\* renderAll(cvData, activeLang) reads activeLang after the await
firstRenderLang(al, q, stored, nav) == al

\* Variant of setLang that assigns activeLang after the render.
ambientAtRender_Stale(old, lang) == old

\* the value of activeLang while setLang(lang) renders: `activeLang = lang`
\* comes first
ambientAtRender(old, lang) == lang

\* init of cv.js after the fetch resolved with an OK response and JSON doc
CvFetchOk(doc) ==
    /\ page = "cv" /\ pc = "fetching"
    /\ \E fl \in {firstRenderLang(activeLang, query, storage, navLang)} :
       \E d \in {renderAll(dom, doc, fl, activeLang)} :
           /\ dom' = Settled(d)
           /\ anim' = AfterRender(anim, d)
           /\ mainErr' = IF d.err /\ CvShellHasMain
                         THEN << errorMessage(activeLang) >> \o mainErr
                         ELSE mainErr
           /\ log' = << Ev("renderAll", fl) >>
                     \o (IF d.err THEN << >> ELSE << Ev("cv-rendered", "") >>)
    /\ cvData' = Some(doc)
    /\ pc' = "done"
    /\ thrown' = FALSE
    /\ lastOp' = [op |-> "fetchOk", arg |-> ""]
    /\ UNCHANGED <<navLang, storage, chosen, page, query, slug, activeLang,
                   docLang, portfolioData, buttons>>
    /\ UNCHANGED <<probeVars, exportVars>>

\* init of cv.js after the fetch rejected ("network") or answered with a
\* status that is not OK ("http"): the catch block
CvFetchFail(kind) ==
    /\ page = "cv" /\ pc = "fetching"
    /\ mainErr' = IF CvShellHasMain
                  THEN << errorMessage(activeLang) >> \o mainErr
                  ELSE mainErr
    /\ log' = << >>
    /\ pc' = "done"
    /\ thrown' = FALSE
    /\ lastOp' = [op |-> "fetchFail", arg |-> kind]
    /\ UNCHANGED <<navLang, storage, chosen, page, query, slug, activeLang,
                   docLang, cvData, portfolioData, buttons, dom, anim>>
    /\ UNCHANGED <<probeVars, exportVars>>

\* setLang(lang) of cv.js
CvSetLang(lang) ==
    /\ page = "cv" /\ pc # "unloaded"
    /\ lastOp' = [op |-> "setLang", arg |-> lang]
    /\ IF ~setLangAccepts(lang)
       THEN /\ log' = << >> /\ thrown' = FALSE
            /\ UNCHANGED <<activeLang, storage, chosen, docLang, buttons, dom, anim>>
       ELSE /\ activeLang' = lang
            /\ storage' = persist(storage, lang)
            /\ chosen' = Some([lang |-> lang, on |-> page])
            /\ docLang' = lang
            /\ buttons' = [l \in DOMAIN buttons |->
                              [pressed |-> IF l = lang THEN "true" ELSE "false",
                               label |-> CvButtonLabel(l, lang)]]
            /\ IF IsSome(cvData)
               THEN \E d \in {renderAll(dom, Val(cvData), lang,
                                         ambientAtRender(activeLang, lang))} :
                        /\ dom' = Settled(d)
                        /\ anim' = AfterRender(anim, d)
                        /\ thrown' = d.err
                        /\ log' = IF d.err THEN << Ev("renderAll", lang) >>
                                  ELSE CvSetLangSignals(TRUE, lang)
               ELSE /\ dom' = dom
                    /\ anim' = anim
                    /\ thrown' = FALSE
                    /\ log' = CvSetLangSignals(FALSE, lang)
    /\ UNCHANGED <<navLang, page, pc, query, slug, cvData, portfolioData, mainErr>>
    /\ UNCHANGED <<probeVars, exportVars>>

\* init of portfolio.js up to `await fetch`, on the overview page
\* (p = "overview") or on a case study page (p = "detail") with data-slug sl
PortfolioLoad(p, q, sl) ==
    LET al == resolveInitialLang(q, storage, navLang)
    IN  /\ page' = p /\ pc' = "fetching" /\ query' = q /\ slug' = sl
        /\ activeLang' = al
        /\ docLang' = al
        /\ buttons' = NoProps
        /\ cvData' = None /\ portfolioData' = None
        /\ dom' = EmptyDom /\ mainErr' = << >>
        /\ log' = << Ev("fetch", "/data/portfolio.json") >>
        /\ thrown' = FALSE
        /\ lastOp' = [op |-> "load", arg |-> p]
        /\ anim' = IdleAnim(anim.motion)
        /\ UNCHANGED <<navLang, storage, chosen>>
        /\ UNCHANGED <<probeVars, exportVars>>

\* Variant of the signals of the portfolio render that adds 'lang-changed'.
PortfolioSignals_LangChanged(al) ==
    << Ev(IF page = "overview" THEN "renderOverview" ELSE "renderDetail", al),
       Ev("portfolio-rendered", ""), Ev("lang-changed", al) >>

\* what init and setLang run and dispatch once the document is loaded
PortfolioSignals(al) ==
    << Ev(IF page = "overview" THEN "renderOverview" ELSE "renderDetail", al),
       Ev("portfolio-rendered", "") >>

\* the render of whichever mount node the page has
PortfolioRender(d, data, al) ==
    IF page = "overview" THEN renderOverview(d, data, al)
    ELSE renderDetail(d, data, slug, al)

\* the toggle buttons in the DOM after a render: renderDetail rebuilds the
\* top bar (and its buttons) when the project is found
ButtonsAfterRender(old, data, al) ==
    IF page = "detail" /\ IsSome(FindProject(data, slug)) THEN buildLangToggle(al)
    ELSE old

\* init of portfolio.js after the fetch resolved with an OK response
PortfolioFetchOk(doc) ==
    /\ page \in {"overview", "detail"} /\ pc = "fetching"
    /\ portfolioData' = Some(doc)
    /\ dom' = PortfolioRender(dom, doc, activeLang)
    /\ buttons' = IF page = "overview" THEN buildLangToggle(activeLang)
                  ELSE ButtonsAfterRender(buttons, doc, activeLang)
    /\ log' = PortfolioSignals(activeLang)
    /\ pc' = "done"
    /\ thrown' = FALSE
    /\ lastOp' = [op |-> "fetchOk", arg |-> ""]
    /\ UNCHANGED <<navLang, storage, chosen, page, query, slug, activeLang,
                   docLang, cvData, mainErr, anim>>
    /\ UNCHANGED <<probeVars, exportVars>>

\* init of portfolio.js after a failed fetch: log and return
PortfolioFetchFail(kind) ==
    /\ page \in {"overview", "detail"} /\ pc = "fetching"
    /\ log' = << >>
    /\ pc' = "done"
    /\ thrown' = FALSE
    /\ lastOp' = [op |-> "fetchFail", arg |-> kind]
    /\ UNCHANGED <<navLang, storage, chosen, page, query, slug, activeLang,
                   docLang, cvData, portfolioData, buttons, dom, mainErr, anim>>
    /\ UNCHANGED <<probeVars, exportVars>>

\* setLang(lang) of portfolio.js
PortfolioSetLang(lang) ==
    /\ page \in {"overview", "detail"} /\ pc # "unloaded"
    /\ lastOp' = [op |-> "setLang", arg |-> lang]
    /\ thrown' = FALSE
    /\ IF ~setLangAccepts(lang)
       THEN /\ log' = << >>
            /\ UNCHANGED <<activeLang, storage, chosen, docLang, buttons, dom>>
       ELSE /\ activeLang' = lang
            /\ storage' = persist(storage, lang)
            /\ chosen' = Some([lang |-> lang, on |-> page])
            /\ docLang' = lang
            /\ LET updated == [l \in DOMAIN buttons |->
                                  [buttons[l] EXCEPT
                                     !.pressed = IF l = lang THEN "true" ELSE "false"]]
               IN  IF IsSome(portfolioData)
                   THEN /\ dom' = PortfolioRender(dom, Val(portfolioData), lang)
                        /\ buttons' = ButtonsAfterRender(updated, Val(portfolioData), lang)
                        /\ log' = PortfolioSignals(lang)
                   ELSE /\ dom' = dom
                        /\ buttons' = updated
                        /\ log' = << >>
    /\ UNCHANGED <<navLang, page, pc, query, slug, cvData, portfolioData, mainErr,
                   anim>>
    /\ UNCHANGED <<probeVars, exportVars>>

\* a click on one of the buttons of the filter bar
FilterClick ==
    /\ page = "overview" /\ pc = "done"
    /\ \E i \in 1..Len(dom.overview) :
           /\ dom.overview[i].kind = "filter"
           /\ \E k \in 1..Len(dom.overview[i].items) :
                  /\ lastOp' = [op |-> "filterClick",
                                arg |-> dom.overview[i].items[k].tag]
                  /\ dom' = [dom EXCEPT !.overview = ToggleFilter(dom.overview, k)]
    /\ log' = << >>
    /\ thrown' = FALSE
    /\ UNCHANGED <<navLang, storage, chosen, page, pc, query, slug, activeLang,
                   docLang, cvData, portfolioData, buttons, mainErr, anim>>
    /\ UNCHANGED <<probeVars, exportVars>>

Init ==
    /\ NoProbe
    /\ navLang \in NavArgs
    /\ storage = None
    /\ NoPage /\ NoBars /\ NoExport

Next ==
    \/ \E q \in QueryArgs : CvLoad(q)
    \/ \E doc \in CvDocs : CvFetchOk(doc)
    \/ \E kind \in {"network", "http"} : CvFetchFail(kind)
    \/ \E lang \in LangArgs : CvSetLang(lang)
    \/ \E q \in QueryArgs : PortfolioLoad("overview", q, "")
    \/ \E q \in QueryArgs, sl \in PageSlugs : PortfolioLoad("detail", q, sl)
    \/ \E doc \in PortfolioDocs : PortfolioFetchOk(doc)
    \/ \E kind \in {"network", "http"} : PortfolioFetchFail(kind)
    \/ \E lang \in LangArgs : PortfolioSetLang(lang)
    \/ FilterClick

Spec == Init /\ [][Next]_vars

(***************************************************************************)
(* The CV page with its bar animation (animations.js 103-143)              *)
(***************************************************************************)
\* the observer of initSkillBars reports that a container it watches
\* intersects the viewport: one timer per bar now in the container, and
\* the container is watched no longer
Intersect(target) ==
    /\ page = "cv" /\ target \in anim.observed
    /\ anim' = [anim EXCEPT
                   !.timers = @ \cup {[target |-> target, i |-> i, attached |-> TRUE] :
                                         i \in 1..Len(BarsIn(dom, target))},
                   !.observed = @ \ {target}]
    /\ lastOp' = [op |-> "intersect", arg |-> target]
    /\ log' = << >> /\ thrown' = FALSE
    /\ UNCHANGED <<navLang, storage, chosen, page, pc, query, slug, activeLang,
                   docLang, cvData, portfolioData, buttons, dom, mainErr>>
    /\ UNCHANGED <<probeVars, exportVars>>

\* a pending timer of initSkillBars fires: it writes to the bar it was
\* created for, which may have left the document since
TimerFire(tm) ==
    /\ page = "cv" /\ tm \in anim.timers
    /\ anim' = [anim EXCEPT
                   !.timers = @ \ {tm},
                   !.fills = IF tm.attached
                             THEN [@ EXCEPT ![tm.target][tm.i] =
                                      timerValue(BarsIn(dom, tm.target)[tm.i])]
                             ELSE @]
    /\ lastOp' = [op |-> "timer", arg |-> tm.target]
    /\ log' = << >> /\ thrown' = FALSE
    /\ UNCHANGED <<navLang, storage, chosen, page, pc, query, slug, activeLang,
                   docLang, cvData, portfolioData, buttons, dom, mainErr>>
    /\ UNCHANGED <<probeVars, exportVars>>

InitBars ==
    /\ NoProbe
    /\ navLang = Some(Chars_DE)
    /\ storage = None
    /\ NoPage /\ NoExport
    /\ anim \in {IdleAnim(motion) : motion \in BOOLEAN}

NextBars ==
    \/ \E q \in {None, Some("en")} : CvLoad(q)
    \/ \E doc \in {CvFull, CvNoLanguages} : CvFetchOk(doc)
    \/ CvFetchFail("network")
    \/ \E lang \in {"de", "en", "fr"} : CvSetLang(lang)
    \/ \E target \in BarTargets : Intersect(target)
    \/ \E tm \in anim.timers : TimerFire(tm)

SpecBars == InitBars /\ [][NextBars]_vars

(***************************************************************************)
(* The PDF export handler (export.js 79-151).  A request is at one of the  *)
(* handler's await points (pc names the call it waits for); each action is *)
(* the code that runs when that call resolves or rejects, up to the next   *)
(* await.                                                                  *)
(***************************************************************************)
\* String.prototype.toUpperCase
UpperChar(c) ==
    IF \E i \in 1..Len(Lower) : Lower[i] = c
    THEN Upper[CHOOSE i \in 1..Len(Lower) : Lower[i] = c]
    ELSE c
ToUpperCase(s) == [i \in 1..Len(s) |-> UpperChar(s[i])]

\* values of url.searchParams.get('lang')
ExportQueries == {None, Some(<<"e","n">>), Some(<<"d","e">>),
                  Some(<<"x","x">>), Some(<<"E","N">>)}

\* navigator.language of the headless browser
HeadlessNavs == {Some(Chars_enUS), Some(Chars_DE)}

\* Variant of the language validation that passes the query value through.
exportLang_Raw(q) == IF IsSome(q) THEN Val(q) ELSE <<"d","e">>

\* SUPPORTED_LANGS.includes(get('lang')) ? get('lang') : 'de'
exportLang(q) ==
    IF IsSome(q) /\ Supported(Join(Val(q))) THEN Val(q) ELSE <<"d","e">>

\* Variant of the program order that captures without the selector wait.
AwaitSteps_CaptureFirst ==
    << "launch", "newPage", "evaluateOnNewDocument", "goto",
       "fonts", "fill", "pdf", "waitForSelector" >>

\* the calls the handler awaits, in program order
AwaitSteps == << "launch", "newPage", "evaluateOnNewDocument", "goto",
                 "fonts", "waitForSelector", "fill", "pdf" >>

StepNo(step) == CHOOSE i \in 1..Len(AwaitSteps) : AwaitSteps[i] = step
IsAwaiting(pcv) == \E i \in 1..Len(AwaitSteps) : AwaitSteps[i] = pcv

\* the calls that carry a timeout option
TimedSteps == {"goto", "waitForSelector"}

Filename(lang) == "CV_Mathis_Thomsen_" \o Join(ToUpperCase(lang)) \o ".pdf"

\* Variant of the error response that leaves the error message out.
Resp500_NoDetail(message) ==
    [status |-> 500, type |-> "text/plain", disposition |-> "",
     body |-> "PDF generation failed"]

Resp503 ==
    [status |-> 503, type |-> "text/plain", disposition |-> "",
     body |-> "Puppeteer not installed. Run: npm install"]
Resp500(message) ==
    [status |-> 500, type |-> "text/plain", disposition |-> "",
     body |-> "PDF generation failed: " \o message]
Resp200(lang) ==
    [status |-> 200, type |-> "application/pdf",
     disposition |-> "attachment; filename=\"" \o Filename(lang) \o "\"",
     body |-> "pdfBuffer"]

\* Variant of the pre-seed that always stores German.
preSeed_German(lang) == Some("de")

\* localStorage.setItem('cv-lang', lang) in every new document of the page
preSeed(lang) == Some(Join(lang))

\* the lang parameter of cvUrl
cvUrlLang(lang) == Some(Join(lang))

\* what the CV page has done when the network is idle: its fetch failed
\* (None), or it rendered the fetched document, entirely or up to the
\* section that threw
HeadlessPages == {None, Some(CvFull), Some(CvNoLanguages)}

\* the fill elements of the page after its bootstrap
PageBars(outcome, lang) ==
    IF IsSome(outcome)
    THEN CHOOSE b \in {BarsOf(d) : d \in
                        {renderAll(EmptyDom, Val(outcome), lang, lang)}} : TRUE
    ELSE << >>

\* the [data-reveal] elements of the CV page shell, none visible yet
CvShellReveals == [e \in {"cv-section"} |-> FALSE]

\* the selectors of the forced fill
ForcedSelectors == {"cv-skill__bar-fill", "cv-lang__bar-fill"}

\* Variant of the forced fill that selects the skill bars only.
forceFills_SkillsOnly(bars) ==
    [i \in 1..Len(bars) |->
        IF bars[i].cls = "cv-skill__bar-fill"
        THEN [bars[i] EXCEPT !.fill = bars[i].level] ELSE bars[i]]

\* bar.style.setProperty('--bar-fill', bar.dataset.level) on every match
forceFills(bars) ==
    [i \in 1..Len(bars) |->
        IF bars[i].cls \in ForcedSelectors
        THEN [bars[i] EXCEPT !.fill = bars[i].level] ELSE bars[i]]

\* el.classList.add('is-visible') on every [data-reveal] element
forceReveals(reveals) == [e \in DOMAIN reveals |-> TRUE]

\* Variant of the cleanup that leaves the browser as it is.
closeBrowser_Skip(b) == b

\* finally { if (browser) await browser.close(); } once close() resolved
closeBrowser(b) == IF b = "open" THEN "closed" ELSE b

\* Variant of the scoping with one `browser` variable for all requests.
Scope_Module(r) == "module"

\* `let browser` is declared inside handlePdfExport: one per invocation
Scope(r) == r

\* the handler up to its first await: GET /export/cv.pdf with the query
\* value q arrives; the language is validated and puppeteer is required
Receive(r, q) ==
    /\ reqs[r].pc = "idle"
    /\ reqs' = [reqs EXCEPT ![r] =
          IF installed
          THEN [@ EXCEPT !.q = q, !.lang = exportLang(q), !.pc = "launch"]
          ELSE [@ EXCEPT !.q = q, !.lang = exportLang(q), !.pc = "done",
                         !.responses = Append(@, Resp503)]]
    /\ browserVar' = IF installed
                     THEN [browserVar EXCEPT ![Scope(r)] = "undefined"]
                     ELSE browserVar
    /\ UNCHANGED <<probeVars, pageVars, installed>>

\* the awaited call of request r resolves (any call but the capture);
\* outcome is what the CV page did before the network of the page was idle
StepOk(r, outcome) ==
    LET me   == reqs[r]
        next == AwaitSteps[StepNo(me.pc) + 1]
        done == [me EXCEPT !.trace = Append(@, me.pc), !.pc = next]
    IN  /\ IsAwaiting(me.pc) /\ me.pc # "pdf"
        /\ \/ /\ me.pc = "launch"
              /\ reqs' = [reqs EXCEPT ![r] = [done EXCEPT !.browser = "open"]]
              /\ browserVar' = [browserVar EXCEPT ![Scope(r)] = r]
           \/ /\ me.pc = "newPage"
              /\ reqs' = [reqs EXCEPT ![r] =
                             [done EXCEPT !.pageIn = browserVar[Scope(r)]]]
              /\ UNCHANGED browserVar
           \/ /\ me.pc = "evaluateOnNewDocument"
              /\ reqs' = [reqs EXCEPT ![r] =
                             [done EXCEPT !.seed = preSeed(me.lang)]]
              /\ UNCHANGED browserVar
           \/ /\ me.pc = "goto"
              /\ \E nav \in HeadlessNavs :
                   \E al \in {resolveInitialLang(cvUrlLang(me.lang), me.seed, nav)} :
                     reqs' = [reqs EXCEPT ![r] =
                                [done EXCEPT
                                   !.pageQuery = cvUrlLang(me.lang),
                                   !.pageNav   = nav,
                                   !.pageLang  = al,
                                   !.bars      = PageBars(outcome, al),
                                   !.reveals   = CvShellReveals]]
              /\ UNCHANGED browserVar
           \/ /\ me.pc = "fill"
              /\ reqs' = [reqs EXCEPT ![r] =
                             [done EXCEPT !.bars = forceFills(@),
                                          !.reveals = forceReveals(@)]]
              /\ UNCHANGED browserVar
           \/ /\ me.pc \in {"fonts", "waitForSelector"}
              /\ reqs' = [reqs EXCEPT ![r] = done]
              /\ UNCHANGED browserVar
        /\ UNCHANGED <<probeVars, pageVars, installed>>

\* page.pdf() resolves: the response is written (writeOk) or writeHead
\* throws and the catch block answers; then the finally block runs
Captured(r, writeOk) ==
    LET me == reqs[r]
    IN  /\ me.pc = "pdf"
        /\ reqs' = [reqs EXCEPT ![r] =
              IF writeOk
              THEN [me EXCEPT !.trace = @ \o <<"pdf", "respond">>,
                              !.responses = Append(@, Resp200(me.lang)), !.pc = "close"]
              ELSE [me EXCEPT !.trace = Append(@, "pdf"),
                              !.responses = Append(@, Resp500("respond: error")),
                              !.failed = "respond", !.pc = "close"]]
        /\ UNCHANGED <<probeVars, pageVars, installed, browserVar>>

\* the awaited call of request r rejects (how = "error") or runs into its
\* timeout: the catch block answers, then the finally block runs
StepFail(r, how) ==
    LET me == reqs[r]
    IN  /\ IsAwaiting(me.pc)
        /\ how = "timeout" => me.pc \in TimedSteps
        /\ reqs' = [reqs EXCEPT ![r] =
              [me EXCEPT !.responses = Append(@, Resp500(me.pc \o ": " \o how)),
                         !.failed = me.pc,
                         !.pc = IF browserVar[Scope(r)] # "undefined"
                                THEN "close" ELSE "done"]]
        /\ UNCHANGED <<probeVars, pageVars, installed, browserVar>>

\* inside the page of request r, animations.js acts on its own: a timer
\* of initSkillBars sets a bar to its level (animations.js 133-135), or
\* initScrollReveal marks an element visible (animations.js 79-92)
PageAnimate(r) ==
    LET me == reqs[r]
    IN  /\ me.pageLang # "" /\ me.browser = "open"
        /\ \/ \E i \in 1..Len(me.bars) :
                 /\ me.bars[i].fill # me.bars[i].level
                 /\ reqs' = [reqs EXCEPT ![r].bars[i].fill = me.bars[i].level]
           \/ \E e \in DOMAIN me.reveals :
                 /\ ~me.reveals[e]
                 /\ reqs' = [reqs EXCEPT ![r].reveals[e] = TRUE]
        /\ UNCHANGED <<probeVars, pageVars, installed, browserVar>>

\* browser.close() of request r resolves and the handler returns; the
\* browser closed is the one the handler's `browser` variable refers to
Close(r) ==
    /\ reqs[r].pc = "close"
    /\ \E b \in {browserVar[Scope(r)]} :
           reqs' = [reqs EXCEPT ![b].browser = closeBrowser(@),
                                ![r].closes = @ \cup {b},
                                ![r].pc = "done"]
    /\ UNCHANGED <<probeVars, pageVars, installed, browserVar>>

InitExport ==
    /\ NoProbe /\ NoPage /\ NoBars
    /\ navLang = Some(Chars_deDE) /\ storage = None
    /\ installed \in BOOLEAN
    /\ reqs = [r \in Requests |-> IdleReq]
    /\ browserVar = [sc \in Scopes |-> "undefined"]

NextExport ==
    \/ \E r \in Requests, q \in ExportQueries : Receive(r, q)
    \/ \E r \in Requests : StepOk(r, Some(CvFull))
    \/ \E r \in Requests, writeOk \in BOOLEAN : Captured(r, writeOk)
    \/ \E r \in Requests, how \in {"error", "timeout"} : StepFail(r, how)
    \/ \E r \in Requests : Close(r)

SpecExport == InitExport /\ [][NextExport]_vars

\* the export of one request whose page is in any state its bootstrap can
\* leave, with the page's own animations running next to the handler
CaptureQueries == {None, Some(<<"e","n">>)}

NextCapture ==
    \/ \E q \in CaptureQueries : Receive("r1", q)
    \/ \E outcome \in HeadlessPages : StepOk("r1", outcome)
    \/ \E writeOk \in BOOLEAN : Captured("r1", writeOk)
    \/ \E how \in {"error", "timeout"} : StepFail("r1", how)
    \/ PageAnimate("r1")
    \/ Close("r1")

InitCapture == InitExport /\ installed = TRUE

SpecCapture == InitCapture /\ [][NextCapture]_vars

(***************************************************************************)
(* Claims about the pure helpers                                           *)
(***************************************************************************)
SupportedOpt(o) == o = Some("de") \/ o = Some("en")

\* what the first two lower-cased characters of each navigator.language
\* value of NavVals are expected to select
ExpectedFromBrowser(nav) ==
    IF nav = Some(Chars_enUS) \/ nav = Some(Chars_ENGB) THEN "en"
    ELSE "de"

\* C1: resolveInitialLang returns a supported code; a supported query value
\* wins over any persisted or browser value, a supported persisted value wins
\* over any browser value, a supported browser prefix (first two lower-cased
\* characters) is used next, and 'de' is returned when none is supported.
C1_ResolveOrder ==
    IsSome(rOut) =>
        LET a   == Val(rIn)
            out == Val(rOut)
        IN  /\ out \in {"de", "en"}
            /\ SupportedOpt(a.q) => out = Val(a.q)
            /\ (~SupportedOpt(a.q) /\ SupportedOpt(a.stored)) => out = Val(a.stored)
            /\ (~SupportedOpt(a.q) /\ ~SupportedOpt(a.stored))
                   => out = ExpectedFromBrowser(a.nav)

\* C1 witness: ?lang=en beats the persisted 'de' and the browser's fr-FR
C1_Witness ==
    /\ rIn = Some([q |-> Some("en"), stored |-> Some("de"), nav |-> Some(Chars_frFR)])
    /\ rOut = Some("en")

\* C2 as stated: whenever the mapping contains the key L (L supported),
\* t(F, L) is exactly F[L], the empty string included.
C2_Original ==
    IsSome(tOut) =>
        LET f == Val(tIn).field
            l == Val(tIn).lang
        IN  (f.k = "object" /\ l \in {"de", "en"} /\ l \in DOMAIN f.m)
                => Val(tOut) = Str(f.m[l])

\* C2 (amended): for a supported L and a mapping that contains the key L,
\* t(F, L) is exactly F[L] when F[L] is a non-empty string; when F[L] is the
\* empty string the result is F['de'] if that is present, and '' otherwise.
C2_LocalizedValue ==
    IsSome(tOut) =>
        LET f == Val(tIn).field
            l == Val(tIn).lang
        IN  (f.k = "object" /\ l \in {"de", "en"} /\ l \in DOMAIN f.m)
                => Val(tOut) = IF f.m[l] # "" THEN Str(f.m[l])
                               ELSE IF "de" \in DOMAIN f.m THEN Str(f.m["de"])
                               ELSE Str("")

\* C2 witness: the English value is returned although a German one exists
C2_Witness ==
    /\ tIn = Some([field |-> Obj([de |-> "Hallo", en |-> "Hello"]), lang |-> "en"])
    /\ tOut = Some(Str("Hello"))

\* C3: t is total and never returns undefined: '' for an absent or null
\* field, the string itself for a plain string (any lang), and for a mapping
\* without the key lang the value at 'de' if present, '' otherwise.
C3_Total ==
    IsSome(tOut) =>
        LET f   == Val(tIn).field
            l   == Val(tIn).lang
            out == Val(tOut)
        IN  /\ out.k = "string"
            /\ f.k \in {"undefined", "null"} => out = Str("")
            /\ f.k = "string" => out = Str(f.s)
            /\ (f.k = "object" /\ l \notin DOMAIN f.m)
                   => out = IF "de" \in DOMAIN f.m THEN Str(f.m["de"]) ELSE Str("")

\* C3 witness: an unsupported language on a mapping that has neither that
\* key nor 'de' yields the empty string
C3_Witness ==
    /\ tIn = Some([field |-> Obj([en |-> "Hello"]), lang |-> "fr"])
    /\ tOut = Some(Str(""))

StartsWith(s, pre) == Len(pre) <= Len(s) /\ SubSeq(s, 1, Len(pre)) = pre

\* the token the claim expects for an absent date
ExpectedToken(lang) == IF lang = "de" THEN <<"h","e","u","t","e">>
                       ELSE <<"p","r","e","s","e","n","t">>

ExpectedSep == <<" ", "U+2013", " ">>

\* C4: formatPeriod joins the two formatted dates with ' - ' (en-dash);
\* an absent or empty date is 'heute' for 'de' and 'present' for any other
\* language, a year-only string is returned unchanged; so a period with an
\* absent end ends in the present token of the language.
C4_FormatPeriod ==
    IsSome(dOut) =>
        LET a   == Val(dIn)
            out == Val(dOut)
        IN  /\ Cardinality({i \in 1..Len(out) : out[i] = "U+2013"}) = 1
            /\ FalsyChars(a.end)   => EndsWith(out, ExpectedSep \o ExpectedToken(a.lang))
            /\ FalsyChars(a.start) => StartsWith(out, ExpectedToken(a.lang) \o ExpectedSep)
            /\ a.end = Some(Chars_2020)   => EndsWith(out, ExpectedSep \o Chars_2020)
            /\ a.start = Some(Chars_2020) => StartsWith(out, Chars_2020 \o ExpectedSep)

\* C4 witness: formatPeriod("2020-03", null, "en") is "Mar 2020 - present"
C4_Witness ==
    /\ dIn = Some([start |-> Some(Chars_2020_03), end |-> None, lang |-> "en"])
    /\ dOut = Some(<<"M","a","r"," ","2","0","2","0"," ","U+2013"," ",
                     "p","r","e","s","e","n","t">>)

(***************************************************************************)
(* Claims about the page life cycle                                        *)
(***************************************************************************)
AcceptedCall(o) == o.op = "setLang" /\ o.arg \in {"de", "en"}
RejectedCall(o) == o.op = "setLang" /\ o.arg \notin {"de", "en"}

\* the CV documents on which renderAll ends with a TypeError
CvDocThrows(doc) ==
    \/ ~IsSome(doc.experience)
    \/ \E i \in 1..Len(OrEmpty(doc.experience)) : ~IsSome(Val(doc.experience)[i].roles)
    \/ ~IsSome(doc.education)
    \/ ~IsSome(Val(doc.skills).specialized)
    \/ ~IsSome(Val(doc.skills).tools)
    \/ ~IsSome(doc.languages)
    \/ ~IsSome(doc.certifications)
    \/ ~IsSome(doc.projects)

\* the state setLang(L) leaves behind besides the render and the signals
LangApplied(l) ==
    /\ activeLang = l
    /\ storage = Some(l)
    /\ docLang = l
    /\ \A b \in DOMAIN buttons : (buttons[b].pressed = "true") <=> (b = l)

\* C5 as stated: every accepted setLang call on the CV page applies the
\* language, runs renderAll and emits 'cv-rendered' and then 'lang-changed'.
C5_Original ==
    (page = "cv" /\ AcceptedCall(lastOp)) =>
        /\ LangApplied(lastOp.arg)
        /\ log = << Ev("renderAll", lastOp.arg), Ev("cv-rendered", ""),
                    Ev("lang-changed", lastOp.arg) >>

\* C5 (amended): every accepted setLang(L) call on the CV page applies the
\* language (active language, persisted key, document language, pressed
\* states).  With the CV document loaded it runs renderAll and then emits
\* 'cv-rendered' followed by 'lang-changed' carrying L; with no document
\* loaded (fetch in flight or failed) it renders nothing and emits only
\* 'lang-changed'; when renderAll throws on a document with an absent
\* array the call ends with that error and emits neither signal.
C5_SetLangSignals ==
    (page = "cv" /\ AcceptedCall(lastOp)) =>
        /\ LangApplied(lastOp.arg)
        /\ ~IsSome(cvData) =>
               /\ log = << Ev("lang-changed", lastOp.arg) >>
               /\ ~thrown /\ dom = EmptyDom
        /\ (IsSome(cvData) /\ ~CvDocThrows(Val(cvData))) =>
               /\ log = << Ev("renderAll", lastOp.arg), Ev("cv-rendered", ""),
                           Ev("lang-changed", lastOp.arg) >>
               /\ ~thrown
               /\ dom.title = IF lastOp.arg = "en" THEN "CV" ELSE "Lebenslauf"
        /\ (IsSome(cvData) /\ CvDocThrows(Val(cvData))) =>
               /\ log = << Ev("renderAll", lastOp.arg) >>
               /\ thrown

\* C5 witness: a switch to English with the full document loaded
C5_Witness ==
    /\ page = "cv" /\ lastOp = [op |-> "setLang", arg |-> "en"]
    /\ cvData = Some(CvFull)
    /\ log = << Ev("renderAll", "en"), Ev("cv-rendered", ""), Ev("lang-changed", "en") >>

\* C6: setLang with an unsupported code changes nothing on either engine
\* (active language, persisted key, document language, toggle buttons,
\* DOM, error message, loaded data) and emits no signal.
C6_UnsupportedNoOp ==
    [][ RejectedCall(lastOp') =>
          /\ UNCHANGED <<activeLang, storage, docLang, buttons, dom, mainErr,
                         cvData, portfolioData, chosen>>
          /\ log' = << >>
          /\ thrown' = FALSE ]_vars

\* C6 witness: setLang('fr') after the English CV has been rendered
C6_Witness ==
    /\ page = "cv" /\ lastOp = [op |-> "setLang", arg |-> "fr"]
    /\ cvData = Some(CvFull) /\ activeLang = "en" /\ dom.title = "CV"
    /\ storage = Some("en") /\ log = << >>

\* the DOM a single render of the loaded document in the active language
\* leaves in a fresh shell
SingleRender ==
    IF page = "cv"
    THEN Settled(renderAll(EmptyDom, Val(cvData), activeLang, activeLang))
    ELSE IF page = "overview"
    THEN renderOverview(EmptyDom, Val(portfolioData), activeLang)
    ELSE renderDetail(EmptyDom, Val(portfolioData), slug, activeLang)

DataLoaded == IsSome(cvData) \/ IsSome(portfolioData)

\* a top-level render has just run: at bootstrap after a successful fetch,
\* or in an accepted setLang call with the document loaded
RenderRan == lastOp.op = "fetchOk" \/ (AcceptedCall(lastOp) /\ DataLoaded)

\* C7: re-rendering is idempotent.  A setLang call that renders the loaded
\* document again, directly after a render in the same language, leaves
\* every mount node as it was, and after every render, over any number of
\* language switches, the mount nodes hold exactly what one render of
\* (document, active language) produces: children are replaced, never
\* accumulated.
C7_Idempotent ==
    /\ [][ (RenderRan /\ AcceptedCall(lastOp') /\ lastOp'.arg = activeLang)
               => dom' = dom ]_vars
    /\ [](RenderRan => dom = SingleRender)

\* C7 witness: the DOM after a switch to English on a loaded CV holds one
\* timeline entry for the one job of the document
C7_Witness ==
    /\ page = "cv" /\ lastOp = [op |-> "setLang", arg |-> "en"]
    /\ cvData = Some(CvFull) /\ query = Some("de")
    /\ Len(dom.experience) = 1 /\ dom.title = "CV"

\* C8: the persisted preference is site-wide.  After an accepted setLang(L)
\* on either engine, a bootstrap of any page without a supported 'lang'
\* query parameter resolves the active language to L, whatever the browser
\* language is.
C8_SiteWide ==
    (lastOp.op = "load" /\ ~SupportedOpt(query) /\ IsSome(chosen))
        => activeLang = Val(chosen).lang

\* C8 witness: English chosen on the CV page, then a case study page is
\* loaded with ?lang=fr in a German browser
C8_Witness ==
    /\ lastOp = [op |-> "load", arg |-> "detail"]
    /\ chosen = Some([lang |-> "en", on |-> "cv"])
    /\ navLang = Some(Chars_DE) /\ query = Some("fr")
    /\ activeLang = "en"

\* C9: bootstrap never writes the persisted key; the key changes only in a
\* setLang call with a supported code, to that code.
C9_InitNeverPersists ==
    [][ /\ lastOp'.op \in {"load", "fetchOk", "fetchFail"} => storage' = storage
        /\ storage' # storage =>
              (AcceptedCall(lastOp') /\ storage' = Some(lastOp'.arg)) ]_vars

\* C9 witness: a load with ?lang=en while 'de' is persisted
C9_Witness ==
    /\ lastOp.op = "load" /\ query = Some("en")
    /\ storage = Some("de") /\ activeLang = "en"

\* C10: after a failed fetch nothing is rendered, no completion signal is
\* emitted and the bootstrap ends without an exception; the CV bootstrap
\* has prepended exactly one message, in the active language, to #main,
\* the portfolio bootstrap none.
C10_FetchFailure ==
    lastOp.op = "fetchFail" =>
        /\ dom = EmptyDom
        /\ cvData = None /\ portfolioData = None
        /\ log = << >>
        /\ ~thrown
        /\ page = "cv" =>
              mainErr = << IF activeLang = "de"
                           THEN "CV-Daten konnten nicht geladen werden. Bitte Seite neu laden."
                           ELSE "Could not load CV data. Please reload the page." >>
        /\ page # "cv" => mainErr = << >>

\* C10 witness: the fetch fails with an HTTP error after English was
\* chosen on this CV page
C10_Witness ==
    /\ page = "cv" /\ lastOp = [op |-> "fetchFail", arg |-> "http"]
    /\ chosen = Some([lang |-> "en", on |-> "cv"]) /\ query = Some("de")
    /\ mainErr = << "Could not load CV data. Please reload the page." >>

CompletionSignals == {"cv-rendered", "portfolio-rendered"}

\* C11 as stated: on both engines a render of a successfully fetched
\* document, whichever arrays are absent, ends without an error (none
\* thrown, no fallback message shown) and emits the completion signal.
C11_Original ==
    RenderRan =>
        /\ ~thrown
        /\ mainErr = << >>
        /\ \E i \in 1..Len(log) : log[i].what \in CompletionSignals

\* The part of C11 the code keeps: the portfolio renders tolerate absent
\* projects, sections and tags, and the CV render fails exactly on the
\* documents with an absent array.
C11_AbsentArrays ==
    RenderRan =>
        /\ page # "cv" =>
              /\ ~thrown /\ mainErr = << >>
              /\ log[Len(log)].what = "portfolio-rendered"
        /\ page = "cv" =>
              ((\E i \in 1..Len(log) : log[i].what = "cv-rendered")
                   <=> ~CvDocThrows(Val(cvData)))
        /\ (page = "cv" /\ lastOp.op = "fetchOk") =>
              /\ ~thrown
              /\ (mainErr # << >>) <=> CvDocThrows(Val(cvData))

\* C11 witness: the document without its education array was fetched, the
\* render ended in renderEducation, the fallback message is shown and no
\* 'cv-rendered' was emitted
C11_Witness ==
    /\ page = "cv" /\ lastOp.op = "fetchOk" /\ cvData = Some(CvNoEducation)
    /\ Len(mainErr) = 1 /\ log = << Ev("renderAll", activeLang) >>
    /\ dom.experience # << >> /\ dom.education = << >> /\ dom.title = ""

(***************************************************************************)
(* Claims about the portfolio renders                                      *)
(***************************************************************************)
\* the case study page shows the project its data-slug names
OnCaseStudy ==
    /\ page = "detail" /\ IsSome(portfolioData)
    /\ \E i \in 1..Len(OrEmpty(Val(portfolioData).projects)) :
           Val(portfolioData).projects[1][i].slug = slug

\* the project record a case study page names, and the wrappers its body
\* shows
ShownProject ==
    LET projects == Val(Val(portfolioData).projects)
    IN  projects[CHOOSE i \in 1..Len(projects) : projects[i].slug = slug]
ShownBlocks == dom.detail[2].blocks

IsDisclaimer(w) == w.kind = "disclaimer"
NotDisclaimer(w) == w.kind # "disclaimer"

EightTypes == {"stat_bar", "text", "timeline", "method_grid", "insight",
               "challenge_approach_outcome", "visual_slots", "key_takeaways"}
HasKnownType(block) == block.type \in EightTypes

\* C12: on a rendered case study, after the bootstrap render and after
\* every re-render of a language switch, a project with confidential = true
\* shows exactly one disclaimer block, as the last block, after all
\* authored blocks (also when there is none), in the active language; a
\* project with confidential false or absent shows none.
C12_Disclaimer ==
    OnCaseStudy =>
        LET n == Len(ShownBlocks)
            authored == Len(SelectSeq(OrEmpty(ShownProject.sections), HasKnownType))
        IN  IF ShownProject.confidential = Some(TRUE)
            THEN /\ n = authored + 1
                 /\ IsDisclaimer(ShownBlocks[n])
                 /\ ShownBlocks[n].text =
                        (IF activeLang = "de" THEN "Vertraulich" ELSE "Confidential")
                 /\ \A i \in 1..(n - 1) : ~IsDisclaimer(ShownBlocks[i])
            ELSE /\ n = authored
                 /\ \A i \in 1..n : ~IsDisclaimer(ShownBlocks[i])

\* C12 witness: the confidential project without an authored block, after
\* a switch to English: the disclaimer is the only block
C12_Witness ==
    /\ OnCaseStudy /\ slug = "secret"
    /\ lastOp = [op |-> "setLang", arg |-> "en"]
    /\ ShownBlocks = << [kind |-> "disclaimer", text |-> "Confidential",
                         reveal |-> TRUE] >>

\* C13: on a rendered case study the authored wrappers are, in source
\* order, exactly the blocks of the section list whose type is one of the
\* eight known types, each tagged data-reveal; a block of any other type
\* leaves no wrapper and raises no error.
C13_KnownBlocksOnly ==
    OnCaseStudy =>
        LET authored == SelectSeq(ShownBlocks, NotDisclaimer)
            known    == SelectSeq(OrEmpty(ShownProject.sections), HasKnownType)
        IN  /\ Len(authored) = Len(known)
            /\ \A i \in 1..Len(known) :
                   authored[i].kind = known[i].type /\ authored[i].reveal
            /\ ~thrown
            /\ RenderRan => log[Len(log)].what = "portfolio-rendered"

\* C13 witness: the section list text, gallery, insight is shown as the
\* wrappers text and insight, followed by the disclaimer
C13_Witness ==
    /\ OnCaseStudy /\ slug = "b2b" /\ RenderRan
    /\ Len(ShownProject.sections[1]) = 3
    /\ ShownProject.sections[1][2].type = "gallery"
    /\ Len(ShownBlocks) = 3
    /\ ShownBlocks[1].kind = "text" /\ ShownBlocks[2].kind = "insight"
    /\ ShownBlocks[3].kind = "disclaimer"

\* C14: on a case study page whose data-slug equals the slug of no project
\* of the loaded document, the bootstrap render and every later setLang
\* call leave the mount node's children and the document title unchanged
\* and raise no error.
C14_MissingSlug ==
    [][ (/\ page' = "detail" /\ IsSome(portfolioData') /\ ~OnCaseStudy'
         /\ lastOp'.op \in {"fetchOk", "setLang"})
            => /\ dom'.detail = dom.detail /\ dom'.detail = << >>
               /\ dom'.title = dom.title
               /\ thrown' = FALSE ]_vars

\* C14 witness: data-slug "B2B" on a document whose project has the slug
\* "b2b", after a switch to English
C14_Witness ==
    /\ page = "detail" /\ slug = "B2B" /\ portfolioData = Some(PfFive)
    /\ lastOp = [op |-> "setLang", arg |-> "en"] /\ activeLang = "en"
    /\ dom.detail = << >> /\ dom.title = ""

\* the cards of the overview grid and the filter bars above it
OverviewGrid == dom.overview[Len(dom.overview)]
FilterBars   == {i \in 1..Len(dom.overview) : dom.overview[i].kind = "filter"}

\* C15: on a rendered overview there is exactly one filter bar, ahead of
\* the grid, when the document has more than 4 projects and none when it
\* has 4 or fewer; the grid holds one card per project in source order;
\* and this stays so whatever the pressed states of the filter buttons.
C15_FilterBarAndCards ==
    (page = "overview" /\ IsSome(portfolioData)) =>
        LET projects == OrEmpty(Val(portfolioData).projects)
        IN  /\ OverviewGrid.kind = "grid"
            /\ IF Len(projects) > 4
               THEN Len(dom.overview) = 2 /\ FilterBars = {1}
               ELSE Len(dom.overview) = 1 /\ FilterBars = { }
            /\ Len(OverviewGrid.items) = Len(projects)
            /\ \A i \in 1..Len(projects) :
                   OverviewGrid.items[i].href
                       = "/portfolio/" \o projects[i].slug \o "/"

\* C15 witness: five projects, a filter button has been pressed, five cards
C15_Witness ==
    /\ page = "overview" /\ portfolioData = Some(PfFive)
    /\ lastOp.op = "filterClick"
    /\ \E k \in 1..Len(dom.overview[1].items) :
           dom.overview[1].items[k].pressed = "true"
    /\ Len(OverviewGrid.items) = 5

OnPortfolio == page \in {"overview", "detail"}

\* C16: a portfolio setLang(L) call with a supported L made from a toggle
\* button persists L, sets the document language to L, sets the pressed
\* state of every toggle button on the page, re-renders the mounted page
\* from scratch and then emits 'portfolio-rendered' exactly once.  A toggle
\* button is on the page only once the document is loaded, and no
\* portfolio step ever emits 'lang-changed'.
C16_PortfolioSetLang ==
    /\ [][ (OnPortfolio /\ AcceptedCall(lastOp') /\ lastOp'.arg \in DOMAIN buttons)
             => /\ activeLang' = lastOp'.arg
                /\ storage' = Some(lastOp'.arg)
                /\ docLang' = lastOp'.arg
                /\ DOMAIN buttons' = {"de", "en"}
                /\ \A b \in DOMAIN buttons' :
                       (buttons'[b].pressed = "true") <=> (b = lastOp'.arg)
                /\ log' = << Ev(IF page = "overview" THEN "renderOverview"
                                ELSE "renderDetail", lastOp'.arg),
                             Ev("portfolio-rendered", "") >>
                /\ dom' = SingleRender'
                /\ thrown' = FALSE ]_vars
    /\ [](OnPortfolio =>
            /\ \A i \in 1..Len(log) : log[i].what # "lang-changed"
            /\ (DOMAIN buttons # { }) => IsSome(portfolioData))

\* C16 witness: on the overview of five projects, loaded with ?lang=de,
\* the EN button is clicked: the page is rendered anew in English and
\* 'portfolio-rendered' is the only signal
C16_Witness ==
    /\ page = "overview" /\ portfolioData = Some(PfFive)
    /\ lastOp = [op |-> "setLang", arg |-> "en"] /\ query = Some("de")
    /\ storage = Some("en") /\ docLang = "en"
    /\ buttons["en"].pressed = "true" /\ buttons["de"].pressed = "false"
    /\ log = << Ev("renderOverview", "en"), Ev("portfolio-rendered", "") >>
    /\ OverviewGrid.items[1].cta = "View project"

(***************************************************************************)
(* Claims about the export handler                                         *)
(***************************************************************************)
\* the validated language a query value stands for
ExpectedExportLang(q) ==
    IF q = Some(<<"e","n">>) THEN "en" ELSE "de"

ExpectedDisposition(q) ==
    IF q = Some(<<"e","n">>)
    THEN "attachment; filename=\"CV_Mathis_Thomsen_EN.pdf\""
    ELSE "attachment; filename=\"CV_Mathis_Thomsen_DE.pdf\""

\* C17: the export handler works with the 'lang' query value when it is
\* 'de' or 'en' and with 'de' for every other or missing value, and every
\* 200 response is a PDF attachment named CV_Mathis_Thomsen_<LANG>.pdf with
\* LANG the upper-cased validated language.
C17_ExportLanguage ==
    \A r \in Requests :
        reqs[r].pc # "idle" =>
            /\ Join(reqs[r].lang) = ExpectedExportLang(reqs[r].q)
            /\ \A i \in 1..Len(reqs[r].responses) :
                   reqs[r].responses[i].status = 200 =>
                       /\ reqs[r].responses[i].type = "application/pdf"
                       /\ reqs[r].responses[i].disposition
                              = ExpectedDisposition(reqs[r].q)
            /\ (reqs[r].pc = "done" /\ installed /\ reqs[r].failed = "") =>
                   \E i \in 1..Len(reqs[r].responses) :
                       reqs[r].responses[i].status = 200

\* C17 witness: one export with ?lang=xx answered with the _DE file and
\* one with ?lang=en answered with the _EN file
C17_Witness ==
    /\ reqs["r1"].q = Some(<<"x","x">>) /\ reqs["r1"].pc = "done"
    /\ reqs["r1"].responses = << [status |-> 200, type |-> "application/pdf",
            disposition |-> "attachment; filename=\"CV_Mathis_Thomsen_DE.pdf\"",
            body |-> "pdfBuffer"] >>
    /\ reqs["r2"].q = Some(<<"e","n">>) /\ reqs["r2"].pc = "done"
    /\ reqs["r2"].responses = << [status |-> 200, type |-> "application/pdf",
            disposition |-> "attachment; filename=\"CV_Mathis_Thomsen_EN.pdf\"",
            body |-> "pdfBuffer"] >>

\* C18: no handler that launched a browser finishes with it open: when a
\* request is done its browser is closed, or was never launched (puppeteer
\* missing, or the launch itself failed), whichever step failed or timed
\* out.
C18_BrowserClosed ==
    \A r \in Requests :
        /\ reqs[r].pc = "done" =>
              /\ reqs[r].browser # "open"
              /\ reqs[r].browser = "undefined"
                     => (~installed \/ reqs[r].failed = "launch")
        /\ reqs[r].pc \in {"idle", "launch"} => reqs[r].browser = "undefined"

\* C18 witness: the selector wait timed out and the request ended with its
\* browser closed
C18_Witness ==
    \E r \in Requests :
        /\ reqs[r].pc = "done" /\ reqs[r].failed = "waitForSelector"
        /\ reqs[r].responses[1].body
               = "PDF generation failed: waitForSelector: timeout"
        /\ reqs[r].browser = "closed"

\* C19: a finished export request has exactly one response and an
\* unfinished one at most one: 503 plain text when puppeteer cannot be
\* loaded, and then no browser is launched; 500 plain text carrying the
\* error message when the launch, the navigation, a wait or the capture
\* failed; 200 with the PDF otherwise.  No step is retried: the handler
\* only moves forward through its awaited calls and waits for none after
\* a failure.
C19_OneResponse ==
    /\ [](\A r \in Requests :
            LET me == reqs[r]
            IN  /\ Len(me.responses) <= 1
                /\ me.pc = "done" => Len(me.responses) = 1
                /\ ~installed => me.browser = "undefined"
                /\ (me.pc = "done" /\ ~installed) =>
                       /\ me.responses[1].status = 503
                       /\ me.responses[1].type = "text/plain"
                /\ (me.pc = "done" /\ IsAwaiting(me.failed)) =>
                       /\ me.responses[1].status = 500
                       /\ me.responses[1].type = "text/plain"
                       /\ me.responses[1].body \in
                              {"PDF generation failed: " \o me.failed \o ": " \o how :
                                   how \in {"error", "timeout"}}
                /\ (me.pc = "done" /\ installed /\ me.failed = "") =>
                       /\ me.responses[1].status = 200
                       /\ me.responses[1].body = "pdfBuffer")
    /\ [][ \A r \in Requests :
             /\ (IsAwaiting(reqs[r].pc) /\ IsAwaiting(reqs'[r].pc)
                     /\ reqs'[r].pc # reqs[r].pc)
                    => StepNo(reqs'[r].pc) = StepNo(reqs[r].pc) + 1
             /\ reqs[r].pc \in {"close", "done"} => ~IsAwaiting(reqs'[r].pc)
             /\ reqs[r].pc # "idle" => reqs'[r].pc # "idle" ]_vars

\* C19 witness: puppeteer is missing and the request was answered with 503
C19_Witness ==
    /\ ~installed
    /\ \E r \in Requests :
           /\ reqs[r].pc = "done" /\ reqs[r].browser = "undefined"
           /\ reqs[r].responses =
                  << [status |-> 503, type |-> "text/plain", disposition |-> "",
                      body |-> "Puppeteer not installed. Run: npm install"] >>

\* C20: once the navigation of an export for the validated language L has
\* succeeded, the CV engine in the captured page has resolved its active
\* language to L whatever navigator.language the headless browser has:
\* the persisted key was pre-seeded to L, the URL carries ?lang=L, and
\* resolveInitialLang returns L from the pre-seed alone and from the query
\* parameter alone.
C20_ExportPageLanguage ==
    \A r \in Requests :
        reqs[r].pageLang # "" =>
            LET L == ExpectedExportLang(reqs[r].q)
            IN  /\ reqs[r].pageLang = L
                /\ reqs[r].seed = Some(L)
                /\ reqs[r].pageQuery = Some(L)
                /\ resolveInitialLang(None, reqs[r].seed, reqs[r].pageNav) = L
                /\ resolveInitialLang(reqs[r].pageQuery, None, reqs[r].pageNav) = L

\* C20 witness: an English export in a headless browser whose language is
\* German
C20_Witness ==
    \E r \in Requests :
        /\ reqs[r].q = Some(<<"e","n">>) /\ reqs[r].pageNav = Some(Chars_DE)
        /\ reqs[r].pageLang = "en" /\ reqs[r].pc = "fonts"

(***************************************************************************)
(* The order of the export steps (export.js 96-142)                        *)
(***************************************************************************)
\* the order the export is to follow, ending with the PDF response
ExportOrder ==
    << "launch", "newPage", "evaluateOnNewDocument", "goto", "fonts",
       "waitForSelector", "fill", "pdf", "respond" >>

IsPrefix(s, full) ==
    /\ Len(s) <= Len(full)
    /\ \A i \in 1..Len(s) : s[i] = full[i]

Has200(r) == \E i \in 1..Len(reqs[r].responses) : reqs[r].responses[i].status = 200

\* C21: the steps a request has completed are always an initial part of
\* the fixed order launch, new page, pre-seed, navigate, fonts, selector
\* wait, forced fills and reveals, capture, PDF response; the step being
\* awaited is the one right after the last completed step, so the capture
\* starts only after the selector wait succeeded, and the PDF response is
\* written only after every step up to the capture succeeded.
C21_StepOrder ==
    \A r \in Requests :
        /\ IsPrefix(reqs[r].trace, ExportOrder)
        /\ IsAwaiting(reqs[r].pc) =>
               reqs[r].pc = ExportOrder[Len(reqs[r].trace) + 1]
        /\ Has200(r) <=> reqs[r].trace = ExportOrder

C21_Witness ==
    \E r \in Requests : Has200(r) /\ reqs[r].pc = "done"

(***************************************************************************)
(* The captured page (export.js 118-134)                                   *)
(***************************************************************************)
\* every fill element of the page of request r shows its level and every
\* [data-reveal] element is visible
AllForced(r) ==
    /\ \A i \in 1..Len(reqs[r].bars) : reqs[r].bars[i].fill = reqs[r].bars[i].level
    /\ \A e \in DOMAIN reqs[r].reveals : reqs[r].reveals[e]

\* C22: while the PDF capture of a request is awaited and after it, every
\* fill element present in its page has a fill equal to its data-level and
\* every [data-reveal] element is visible, whether or not the page's own
\* observers and timers have acted before.
C22_CaptureForced ==
    \A r \in Requests :
        (reqs[r].pc = "pdf" \/ \E i \in 1..Len(reqs[r].trace) : reqs[r].trace[i] = "pdf")
            => AllForced(r)

\* a capture of a page with a skill bar and a language bar whose own
\* animation had not run when the fills were forced
C22_Witness ==
    \E r \in Requests :
        /\ reqs[r].pc = "pdf"
        /\ \E i, k \in 1..Len(reqs[r].bars) :
               /\ reqs[r].bars[i].cls = "cv-skill__bar-fill"
               /\ reqs[r].bars[k].cls = "cv-lang__bar-fill"
               /\ reqs[r].bars[k].level # 0

(***************************************************************************)
(* Export requests in flight at the same time (export.js 79-151, 155-166)  *)
(***************************************************************************)
AllEnded == \A r \in Requests : reqs[r].pc \in {"idle", "done"}

\* C23: in every interleaving of the export requests, the page of a
\* request is opened in the browser that request launched, a request
\* closes no browser but its own, its language, its pre-seed, the URL it
\* navigates to and the file name of its response follow from its own
\* query alone, and when no request is in flight no browser is open.
C23_Isolation ==
    /\ \A r \in Requests :
          /\ reqs[r].pageIn \in {"undefined", r}
          /\ reqs[r].closes \subseteq {r}
          /\ reqs[r].pc # "idle" => Join(reqs[r].lang) = ExpectedExportLang(reqs[r].q)
          /\ IsSome(reqs[r].seed) => Val(reqs[r].seed) = ExpectedExportLang(reqs[r].q)
          /\ IsSome(reqs[r].pageQuery)
                 => Val(reqs[r].pageQuery) = ExpectedExportLang(reqs[r].q)
          /\ Has200(r) =>
                 reqs[r].responses[1].disposition = ExpectedDisposition(reqs[r].q)
    /\ AllEnded => \A r \in Requests : reqs[r].browser # "open"

\* two requests with different languages in flight together: the first has
\* ended and closed its browser while the second, in its own browser that
\* is still open, awaits its capture
C23_Witness ==
    /\ reqs["r1"].pc = "done" /\ reqs["r1"].trace = ExportOrder
    /\ reqs["r1"].closes = {"r1"} /\ reqs["r1"].browser = "closed"
    /\ reqs["r2"].pc = "pdf" /\ reqs["r2"].pageIn = "r2"
    /\ reqs["r2"].browser = "open"
    /\ Join(reqs["r1"].lang) = "en" /\ Join(reqs["r2"].lang) = "de"

(***************************************************************************)
(* One fetch per page load (cv.js 456-474, 1154-1187)                      *)
(***************************************************************************)
\* the number of fetches a handler issued
Fetches(l) == Cardinality({i \in 1..Len(l) : l[i].what = "fetch"})

\* C24: on both engines the bootstrap of a page load issues exactly one
\* content fetch and no other handler (setLang, the fetch continuations, a
\* filter click) issues any, so a failed fetch is never retried; the
\* loaded record is assigned only by the continuation of that one fetch,
\* while it is still empty, and is never changed afterwards until the
\* next page load starts from an empty record.
C24_SingleFetch ==
    [][ /\ Fetches(log') = (IF lastOp'.op = "load" THEN 1 ELSE 0)
        /\ pc' = "fetching" => (lastOp'.op = "load" \/ pc = "fetching")
        /\ cvData' # cvData =>
               \/ lastOp'.op = "load" /\ cvData' = None
               \/ /\ lastOp'.op = "fetchOk" /\ page = "cv"
                  /\ pc = "fetching" /\ cvData = None
        /\ portfolioData' # portfolioData =>
               \/ lastOp'.op = "load" /\ portfolioData' = None
               \/ /\ lastOp'.op = "fetchOk" /\ page \in {"overview", "detail"}
                  /\ pc = "fetching" /\ portfolioData = None
      ]_vars

\* a language switch after a failed fetch: nothing is loaded, nothing is
\* fetched again
C24_Witness ==
    /\ page = "cv" /\ pc = "done" /\ cvData = None
    /\ lastOp = [op |-> "setLang", arg |-> "en"]
    /\ activeLang = "en" /\ Fetches(log) = 0

(***************************************************************************)
(* The CV page while its fetch is in flight (cv.js 456-470)                *)
(***************************************************************************)
\* exactly the buttons for language l are pressed, among those present
PressedIs(l) ==
    \A b \in DOMAIN buttons : buttons[b].pressed = (IF b = l THEN "true" ELSE "false")

\* C25: whenever the fetch of the CV page is in flight, the document
\* language and the pressed toggle button equal the active language: the
\* bootstrap has set both to the resolved initial language before it issued
\* the fetch, and a setLang call in between keeps them equal.
C25_LangBeforeFetch ==
    (page = "cv" /\ pc = "fetching") =>
        /\ docLang = activeLang
        /\ PressedIs(activeLang)
        /\ lastOp.op = "load" =>
               /\ activeLang = resolveInitialLang(query, storage, navLang)
               /\ log = << Ev("fetch", "/data/cv.json") >>

\* the CV page right after its bootstrap, English resolved from ?lang=en,
\* nothing rendered yet
C25_Witness ==
    /\ page = "cv" /\ pc = "fetching" /\ lastOp.op = "load"
    /\ query = Some("en") /\ activeLang = "en" /\ docLang = "en"
    /\ buttons["en"].pressed = "true" /\ buttons["de"].pressed = "false"
    /\ dom = EmptyDom

C28_LangAndToggle ==
    pc # "unloaded" =>
        /\ docLang = activeLang
        /\ activeLang \in {"de", "en"}
        /\ PressedIs(activeLang)

\* a case study page whose top bar was rebuilt by a render after a switch
\* to English that followed a rejected call
C28_Witness ==
    /\ page = "detail" /\ pc = "done" /\ IsSome(portfolioData)
    /\ chosen = Some([lang |-> "en", on |-> "detail"])
    /\ RejectedCall(lastOp)
    /\ docLang = "en" /\ activeLang = "en"
    /\ DOMAIN buttons = {"de", "en"}
    /\ buttons["en"].pressed = "true" /\ buttons["de"].pressed = "false"

(***************************************************************************)
(* The language of the bar labels (cv.js 65-77, 415-441, 472-474)          *)
(***************************************************************************)
\* the word buildBar puts between level and maximum
BarWord(l) == IF l = "de" THEN "von" ELSE "of"

\* C29: every renderAll call of the CV engine is made with the language
\* that is the active language at that moment, so every bar in the
\* document carries the 'von'/'of' of the language the rest of the page
\* was rendered in, which is the active language.
C29_RenderLangIsAmbient ==
    page = "cv" =>
        /\ \A i \in 1..Len(log) :
               log[i].what = "renderAll" => log[i].detail = activeLang
        /\ \A i \in 1..Len(BarsOf(dom)) : BarsOf(dom)[i].word = BarWord(activeLang)

\* German was active, setLang('en') has rendered the loaded document: the
\* bars read 'of'
C29_Witness ==
    /\ page = "cv" /\ pc = "done" /\ IsSome(cvData)
    /\ lastOp = [op |-> "setLang", arg |-> "en"]
    /\ query = Some("de")
    /\ log[1] = Ev("renderAll", "en")
    /\ Len(BarsOf(dom)) >= 2
    /\ \A i \in 1..Len(BarsOf(dom)) : BarsOf(dom)[i].word = "of"

(***************************************************************************)
(* Activations of the bar controller (animations.js 103-143, 162-173)      *)
(***************************************************************************)
\* the handler that ran last dispatched 'cv-rendered'
Activated == \E i \in 1..Len(log) : log[i].what = "cv-rendered"

AllAtLevel == \A tg \in BarTargets : anim.fills[tg] = Levels(dom, tg)

AllAtZero(tg) == \A i \in 1..Len(anim.fills[tg]) : anim.fills[tg][i] = 0

\* C26: with motion allowed the first activation of the bar controller
\* (the 'cv-rendered' of the first render) leaves every fill at zero and
\* starts one observer on both containers, and until some later activation
\* a bar leaves zero only after its container has intersected the
\* viewport; every later activation (a language switch) sets every bar of
\* #cv-skills and #cv-languages to its data-level at once and creates no
\* further observer; with reduced motion every activation sets every bar to
\* its data-level at once and no observer or timer ever exists.
C26_BarActivation ==
    page = "cv" =>
        /\ anim.observers <= 1
        /\ (anim.motion /\ Activated /\ lastOp.op = "fetchOk") =>
               /\ \A tg \in BarTargets : AllAtZero(tg)
               /\ anim.observers = 1 /\ anim.observed = BarTargets
               /\ anim.timers = {}
        /\ (anim.motion /\ ~anim.refilled) =>
               \A tg \in anim.observed : AllAtZero(tg)
        /\ (anim.motion /\ Activated /\ lastOp.op = "setLang") =>
               AllAtLevel /\ anim.observers = 1
        /\ ~anim.motion =>
               /\ Activated => AllAtLevel
               /\ anim.observers = 0 /\ anim.observed = {} /\ anim.timers = {}

\* motion allowed, no container has intersected yet, and a language switch
\* has set every bar to its level with the one observer still watching
C26_Witness ==
    /\ page = "cv" /\ anim.motion /\ Activated
    /\ lastOp = [op |-> "setLang", arg |-> "en"]
    /\ anim.observed = BarTargets /\ anim.observers = 1
    /\ anim.fills["cv-skills"] = << 4, 5 >>
    /\ anim.fills["cv-languages"] = << 4 >>

(***************************************************************************)
(* Pending timers and language switches (animations.js 117-142)            *)
(***************************************************************************)
\* C30: a fill in the document is always zero or the data-level of its
\* own bar; when a language switch has re-rendered the bars and its
\* 'cv-rendered' handler has returned, every bar in the document is at its
\* own data-level even with timers of earlier intersections still pending;
\* a timer that fires afterwards leaves the document's structure alone and
\* changes no fill except to the data-level of the bar it was created for,
\* and nothing at all when that bar has left the document.
C30_TimersHarmless ==
    [][ page' = "cv" =>
          /\ \A tg \in BarTargets :
                 /\ Len(anim'.fills[tg]) = Len(BarsIn(dom', tg))
                 /\ \A i \in 1..Len(anim'.fills[tg]) :
                        anim'.fills[tg][i] \in {0, BarsIn(dom', tg)[i].level}
          /\ (lastOp'.op = "setLang" /\ Activated') => AllAtLevel'
          /\ lastOp'.op = "timer" =>
                 /\ dom' = dom
                 /\ \A tg \in BarTargets : \A i \in 1..Len(anim.fills[tg]) :
                        anim'.fills[tg][i] \in
                            {anim.fills[tg][i], BarsIn(dom, tg)[i].level}
                 /\ AllAtLevel => AllAtLevel'
                 /\ (anim.timers \ anim'.timers) \subseteq
                        {tm \in anim.timers : ~tm.attached}
                            => anim'.fills = anim.fills
      ]_vars

\* a container intersected, its timers were still pending when the
\* language was switched, and after the switch every bar is at its level
C30_Witness ==
    /\ page = "cv" /\ anim.motion /\ Activated
    /\ lastOp = [op |-> "setLang", arg |-> "en"]
    /\ \E tm \in anim.timers : tm.target = "cv-skills" /\ ~tm.attached
    /\ anim.fills["cv-skills"] = << 4, 5 >>
    /\ anim.fills["cv-languages"] = << 4 >>


====
